---- MODULE Spec2Model ----
(***************************************************************************)
(* A model of the SO campaign manager (socm): the HEFT planner, the        *)
(* resource / QoS model, the enactors and the bookkeeper control loop.     *)
(*                                                                         *)
(* Times (walltimes, start and end times) are Python floats in the code.   *)
(* The model keeps IEEE-754 round-to-nearest-even arithmetic but narrows   *)
(* the significand to MantBits bits (quantum: one minute), so that the     *)
(* rounding the code is exposed to is reachable with small numbers.        *)
(* float("inf") is the sentinel Inf.  Memory comparisons are exact.        *)
(***************************************************************************)
EXTENDS Integers, Sequences, FiniteSets, TLC

\* ------------------------------------------------------------------ bounds
MaxWorkflows == 4
MaxCores == 4
MantBits == 3

\* ------------------------------------------------------------ sentinels
Inf == -1
None == -2

\* ------------------------------------------------------------------ states
NEW_STATE == "NEW"
PLANNING == "PLANNING"
EXECUTING == "EXECUTING"
DONE == "DONE"
FAILED == "FAILED"
CANCELED == "CANCELED"
CFINAL == {DONE, FAILED, CANCELED}

VARIABLES
    \* ---- the campaign handed to the Bookkeeper and the planner's inputs
    campaign,         \* the workflow list the driver built: [id, ranks, threads, memory, runtime, depends]
    dryrun,           \* Bookkeeper._dryrun: DryrunEnactor instead of RPEnactor
    workflows,        \* ids of the campaign's workflows, in the order the planner indexes them
    requirements,     \* resource_requirements: per index [id, req_cpus, req_memory, req_walltime]
    resource,         \* the Resource planned for
    existing_jobs,    \* Resource._existing_jobs: QoS name -> sequence of (job_id, walltime, cores)
    deadline,         \* Planner._objective
    execution_schema, \* "batch" | "remote"
    requested_resources,
    registered,       \* the last call of a Resource method: its arguments, the table before, its result
    reg_threads,      \* per thread calling register_job: where it stands and its locals
    now,              \* the wall clock, in the unit of the deadline; the program never reads it
    planned,          \* what plan() returned (or the error it raised); NoPlan before the call
    \* ---- Bookkeeper fields
    campaign_state,         \* _campaign["state"]
    checkpoints,            \* _checkpoints
    objective,              \* _objective
    workflows_state,        \* _workflows_state
    workflows_execids,      \* _workflows_execids
    workflows_to_monitor,   \* _workflows_to_monitor
    unavail_resources,      \* _unavail_resources
    est_end_times,          \* _est_end_times
    terminate_event,        \* _terminate_event
    \* ---- Bookkeeper threads: run() in the caller, work(), monitor()
    run_pc, run_local,
    work_pc, work_local,
    monitor_pc, monitor_local,
    \* ---- Enactor fields
    enactor_resource,       \* _resource, set by setup()
    to_monitor,             \* _to_monitor
    execution_status,       \* _execution_status: workflow id -> state
    monitoring_thread,      \* _monitoring_thread
    terminate_monitor,      \* _terminate_monitor
    rp_tasks,               \* the tasks the RADICAL-Pilot task manager knows, with their state
    \* ---- Enactor calls and threads: enact(), terminate(), _monitor()
    enact_pc, enact_local,
    eterm_pc,
    emonitor_pc, emonitor_local,
    \* ---- a caller of the enactor's methods other than the Bookkeeper
    driver_pc,
    \* ---- history
    delivered,              \* per workflow and callback, the states delivered so far, in order
    enacted                 \* the batches passed to enact(), in order

inputVars == <<campaign, dryrun, workflows, resource, existing_jobs, deadline,
               execution_schema, requested_resources, registered, reg_threads, now>>
planVars == <<requirements, planned>>
bkVars == <<campaign_state, checkpoints, objective, workflows_to_monitor,
            unavail_resources, est_end_times, terminate_event>>
cbVars == <<workflows_state, workflows_execids, delivered>>
runVars == <<run_pc, run_local>>
workVars == <<work_pc, work_local>>
monitorVars == <<monitor_pc, monitor_local>>
enactorVars == <<enactor_resource, to_monitor, execution_status, monitoring_thread,
                 terminate_monitor, rp_tasks>>
enactVars == <<enact_pc, enact_local, enacted>>
emonitorVars == <<emonitor_pc, emonitor_local>>

vars == <<inputVars, planVars, bkVars, cbVars, runVars, workVars, monitorVars,
          enactorVars, enactVars, eterm_pc, emonitorVars, driver_pc>>

\* ------------------------------------------------------- float arithmetic
RECURSIVE Pow2(_)
Pow2(n) == IF n = 0 THEN 1 ELSE 2 * Pow2(n - 1)

\* the spacing of representable values around n/d
RECURSIVE Quantum(_, _, _)
Quantum(n, d, q) == IF n < Pow2(MantBits) * q * d THEN q ELSE Quantum(n, d, 2 * q)

\* n/d rounded to the nearest representable value, ties to even
FRoundQ(n, d) ==
    LET Nearest(q, lo, r) ==
            IF 2 * r < q * d THEN lo
            ELSE IF 2 * r > q * d THEN lo + q
            ELSE IF (lo \div q) % 2 = 0 THEN lo ELSE lo + q
        Below(q, lo) == Nearest(q, lo, n - lo * d)
        Spaced(q) == Below(q, (n \div (q * d)) * q)
    IN  Spaced(Quantum(n, d, 1))

FRound(x) == FRoundQ(x, 1)

FAdd(a, b) == IF a = Inf \/ b = Inf THEN Inf ELSE FRound(a + b)
FSub(a, b) == IF a = Inf THEN Inf ELSE FRound(a - b)
FLt(a, b) == IF a = Inf THEN FALSE ELSE IF b = Inf THEN TRUE ELSE a < b
FLe(a, b) == IF b = Inf THEN TRUE ELSE IF a = Inf THEN FALSE ELSE a <= b
FMax(a, b) == IF FLt(a, b) THEN b ELSE a

\* ---------------------------------------------------------------- helpers
Min(a, b) == IF a < b THEN a ELSE b
Range(s) == {s[i] : i \in DOMAIN s}

RECURSIVE SumSeq(_)
SumSeq(s) == IF s = <<>> THEN 0 ELSE Head(s) + SumSeq(Tail(s))

\* ------------------------------------------------------ Resource and QoS
\* mutant: the limit on the number of outstanding jobs is not looked at
RECURSIVE FitsFromAnyJobs(_, _, _, _, _)
FitsFromAnyJobs(res, jobs, walltime, cores, i) ==
    IF i > Len(res.qos) THEN None
    ELSE LET policy   == res.qos[i]
             existing == jobs[policy.name]
             used     == SumSeq([k \in DOMAIN existing |-> existing[k].cores])
         IN  IF policy.max_walltime # None /\ policy.max_walltime < walltime
                THEN FitsFromAnyJobs(res, jobs, walltime, cores, i + 1)
             ELSE IF policy.max_cores # None /\ policy.max_cores - used < cores
                THEN FitsFromAnyJobs(res, jobs, walltime, cores, i + 1)
             ELSE i

\* mutant: the cores of the outstanding jobs are not subtracted from max_cores
RECURSIVE FitsFromFreshCores(_, _, _, _, _)
FitsFromFreshCores(res, jobs, walltime, cores, i) ==
    IF i > Len(res.qos) THEN None
    ELSE LET policy   == res.qos[i]
             existing == jobs[policy.name]
         IN  IF policy.max_walltime # None /\ policy.max_walltime < walltime
                THEN FitsFromFreshCores(res, jobs, walltime, cores, i + 1)
             ELSE IF policy.max_cores # None /\ policy.max_cores < cores
                THEN FitsFromFreshCores(res, jobs, walltime, cores, i + 1)
             ELSE IF policy.max_jobs # None /\ Len(existing) >= policy.max_jobs
                THEN FitsFromFreshCores(res, jobs, walltime, cores, i + 1)
             ELSE i

\* Resource.fits_in_qos: the first policy, in list order, that fits; None if none does.
RECURSIVE FitsFrom(_, _, _, _, _)
FitsFrom(res, jobs, walltime, cores, i) ==
    IF i > Len(res.qos) THEN None
    ELSE LET policy   == res.qos[i]
             existing == jobs[policy.name]
             used     == SumSeq([k \in DOMAIN existing |-> existing[k].cores])
         IN  IF policy.max_walltime # None /\ policy.max_walltime < walltime
                THEN FitsFrom(res, jobs, walltime, cores, i + 1)
             ELSE IF policy.max_cores # None /\ policy.max_cores - used < cores
                THEN FitsFrom(res, jobs, walltime, cores, i + 1)
             ELSE IF policy.max_jobs # None /\ Len(existing) >= policy.max_jobs
                THEN FitsFrom(res, jobs, walltime, cores, i + 1)
             ELSE i

\* mutant: the walltime limit of the policies is not looked at
FitsInQosAnyWalltime(res, jobs, walltime, cores) == FitsFrom(res, jobs, 0, cores, 1)

FitsInQos(res, jobs, walltime, cores) == FitsFrom(res, jobs, walltime, cores, 1)

\* no method of the Resource called yet
NoCall == [op |-> "none"]

\* the threads that call register_job on one Resource, and the locals of a call
RegThreads == {1, 2}
RegLocals == [pc |-> "idle", calls |-> 0, job_id |-> 0, walltime |-> 0, cores |-> 0,
              qos_policy |-> None, fresh |-> FALSE]

\* mutant: the job goes to the list of the first policy, whichever policy fits
RegisteredOnFirst(res, jobs, job_id, walltime, cores) ==
    LET qos_policy == FitsInQos(res, jobs, walltime, cores)
        Put(qos_name) ==
            [jobs EXCEPT ![qos_name] =
                Append(@, [job_id |-> job_id, walltime |-> walltime, cores |-> cores])]
    IN  IF qos_policy # None THEN Put(res.qos[1].name) ELSE jobs

\* Resource.register_job: the table of outstanding jobs after the call
Registered(res, jobs, job_id, walltime, cores) ==
    LET qos_policy == FitsInQos(res, jobs, walltime, cores)
        Put(qos_name) ==
            [jobs EXCEPT ![qos_name] =
                Append(@, [job_id |-> job_id, walltime |-> walltime, cores |-> cores])]
    IN  IF qos_policy # None THEN Put(res.qos[qos_policy].name) ELSE jobs

\* ----------------------------------------------------------------- planner
\* HeftPlanner._get_free_memory, as the comparison free_memory >= memory_required
\* with num_nodes = ncores / cores_per_node (both sides scaled by cores_per_node).
UsedMemory(plan, start_time) ==
    SumSeq([k \in DOMAIN plan |->
              IF FLe(plan[k].start_time, start_time) /\ FLt(start_time, plan[k].end_time)
              THEN plan[k].memory ELSE 0])

\* mutant: the memory of every node the allocation touches, whole nodes only
GetFreeMemoryWholeNodes(res, plan, start_time, ncores) ==
    ((ncores + res.cores_per_node - 1) \div res.cores_per_node)
        * res.cores_per_node * res.memory_per_node
    - UsedMemory(plan, start_time) * res.cores_per_node

GetFreeMemory(res, plan, start_time, ncores) ==
    ncores * res.memory_per_node - UsedMemory(plan, start_time) * res.cores_per_node

MemoryFits(res, plan, start_time, ncores, memory_required) ==
    GetFreeMemory(res, plan, start_time, ncores) >= memory_required * res.cores_per_node

\* mutant: among workflows of equal walltime the one of the highest index goes first
RECURSIVE SortedFromLast(_, _)
SortedFromLast(reqs, left) ==
    IF left = {} THEN <<>>
    ELSE LET best == CHOOSE i \in left :
                        \A j \in left :
                            \/ reqs[i].req_walltime > reqs[j].req_walltime
                            \/ reqs[i].req_walltime = reqs[j].req_walltime /\ i >= j
         IN  <<best>> \o SortedFromLast(reqs, left \ {best})

\* HeftPlanner._get_sorted_workflow_indices: longest first, stable on the index
RECURSIVE SortedFrom(_, _)
SortedFrom(reqs, left) ==
    IF left = {} THEN <<>>
    ELSE LET best == CHOOSE i \in left :
                        \A j \in left :
                            \/ reqs[i].req_walltime > reqs[j].req_walltime
                            \/ reqs[i].req_walltime = reqs[j].req_walltime /\ i <= j
         IN  <<best>> \o SortedFrom(reqs, left \ {best})

GetSortedWorkflowIndices(reqs) == SortedFrom(reqs, DOMAIN reqs)

\* HeftPlanner._initialize_resource_free_times with start_time = 0.0
InitializeResourceFreeTimes(ncores) == [c \in 0 .. ncores - 1 |-> 0]

\* resource_free[core_slice].max()
RECURSIVE SliceMax(_, _, _)
SliceMax(free, lo, hi) ==
    IF lo + 1 >= hi THEN free[lo] ELSE FMax(free[lo], SliceMax(free, lo + 1, hi))

\* HeftPlanner._find_best_resource_slot: the while loop over the strided windows
RECURSIVE SlotScan(_, _, _, _, _, _, _)
SlotScan(res, plan, req, ncores, free, core_idx, acc) ==
    IF core_idx + req.req_cpus > ncores THEN acc
    ELSE LET Candidate(start_time_candidate, end_time_candidate) ==
                 IF /\ MemoryFits(res, plan, start_time_candidate, ncores, req.req_memory)
                    /\ FLt(end_time_candidate, acc.min_end_time)
                 THEN [min_end_time |-> end_time_candidate, best_core_idx |-> core_idx]
                 ELSE acc
             Window(start_time_candidate) ==
                 Candidate(start_time_candidate,
                           FAdd(start_time_candidate, req.req_walltime))
         IN  SlotScan(res, plan, req, ncores, free, core_idx + req.req_cpus,
                      Window(SliceMax(free, core_idx, core_idx + req.req_cpus)))

StartOfBest(acc, req) == FSub(acc.min_end_time, req.req_walltime)

FindBestResourceSlot(res, plan, req, ncores, free) ==
    LET Best(acc) == [best_core_idx |-> acc.best_core_idx,
                      start_time |-> StartOfBest(acc, req)]
    IN  Best(SlotScan(res, plan, req, ncores, free, 0,
                      [min_end_time |-> Inf, best_core_idx |-> 0]))

\* one iteration of the scheduling loop of _calculate_plan
PlaceWorkflow(res, st, req, ncores) ==
    LET Update(entry) ==
            [plan |-> Append(st.plan, entry),
             free |-> [c \in DOMAIN st.free |->
                         IF entry.c0 <= c /\ c < entry.c1 THEN entry.end_time
                         ELSE st.free[c]]]
        Entry(slot) ==
            Update([workflow |-> req.id,
                    c0 |-> Min(slot.best_core_idx, ncores),
                    c1 |-> Min(slot.best_core_idx + req.req_cpus, ncores),
                    memory |-> req.req_memory,
                    start_time |-> slot.start_time,
                    end_time |-> FAdd(slot.start_time, req.req_walltime)])
    IN  Entry(FindBestResourceSlot(res, st.plan, req, ncores, st.free))

RECURSIVE PlaceAll(_, _, _, _, _)
PlaceAll(res, st, reqs, order, ncores) ==
    IF order = <<>> THEN st
    ELSE PlaceAll(res, PlaceWorkflow(res, st, reqs[Head(order)], ncores), reqs,
                  Tail(order), ncores)

Cores(entry) == entry.c0 .. entry.c1 - 1

\* HeftPlanner._get_plan_graph over the plan in placement order
RECURSIVE GraphFrom(_, _, _, _)
GraphFrom(plan, k, owner, g) ==
    IF k > Len(plan) THEN g
    ELSE LET entry == plan[k]
             previous_tasks == {owner[c] : c \in Cores(entry)} \ {None}
             owner2 == [c \in DOMAIN owner |->
                          IF c \in Cores(entry) THEN entry.workflow ELSE owner[c]]
             g2 == [nodes |-> IF entry.workflow \in Range(g.nodes) THEN g.nodes
                              ELSE Append(g.nodes, entry.workflow),
                    edges |-> g.edges \cup {<<p, entry.workflow>> : p \in previous_tasks}]
         IN  GraphFrom(plan, k + 1, owner2, g2)

GetPlanGraph(plan, ncores) ==
    GraphFrom(plan, 1, [c \in 0 .. ncores - 1 |-> None], [nodes |-> <<>>, edges |-> {}])

\* sorted(self._plan, key=lambda entry: entry.workflow.id)
RECURSIVE SortById(_)
SortById(plan) ==
    IF plan = <<>> THEN <<>>
    ELSE LET k == CHOOSE i \in DOMAIN plan :
                     \A j \in DOMAIN plan :
                         \/ plan[i].workflow < plan[j].workflow
                         \/ plan[i].workflow = plan[j].workflow /\ i <= j
         IN  <<plan[k]>> \o SortById([i \in 1 .. Len(plan) - 1 |->
                                         IF i < k THEN plan[i] ELSE plan[i + 1]])

\* HeftPlanner._calculate_plan on resources = range(nres)
EffectiveCores(res, nres) == IF nres # 0 THEN nres ELSE res.nodes * res.cores_per_node

CalculatePlan(res, reqs, nres) ==
    LET Result(st, ncores) ==
            [plan |-> SortById(st.plan), graph |-> GetPlanGraph(st.plan, ncores),
             placed |-> st.plan]
        Schedule(ncores) ==
            Result(PlaceAll(res, [plan |-> <<>>,
                                  free |-> InitializeResourceFreeTimes(ncores)],
                            reqs, GetSortedWorkflowIndices(reqs), ncores),
                   ncores)
    IN  Schedule(EffectiveCores(res, nres))

RECURSIVE MaxEnd(_)
MaxEnd(plan) ==
    IF Len(plan) = 1 THEN plan[1].end_time ELSE FMax(plan[1].end_time, MaxEnd(Tail(plan)))

\* HeftPlanner._binary_search_resources
NotFound == [ncores |-> None]

RECURSIVE BinarySearchResources(_, _, _, _, _, _)
BinarySearchResources(res, reqs, planner_objective, lower_bound, upper_bound, best) ==
    IF lower_bound > upper_bound THEN best
    ELSE LET Try(mid, test) ==
                 IF FLe(MaxEnd(test.plan), planner_objective)
                 THEN BinarySearchResources(res, reqs, planner_objective, lower_bound,
                                            mid - 1,
                                            [ncores |-> mid, plan |-> test.plan,
                                             graph |-> test.graph, placed |-> test.placed])
                 ELSE BinarySearchResources(res, reqs, planner_objective, mid + 1,
                                            upper_bound, best)
             Probe(mid) == Try(mid, CalculatePlan(res, reqs, mid))
         IN  Probe((lower_bound + upper_bound) \div 2)

RECURSIVE MaxCpus(_)
MaxCpus(reqs) ==
    IF Len(reqs) = 1 THEN reqs[1].req_cpus
    ELSE LET m == MaxCpus(Tail(reqs)) IN IF reqs[1].req_cpus > m THEN reqs[1].req_cpus ELSE m

GetMaxNcores(reqs) == MaxCpus(reqs)

NoPlan == [error |-> "not called"]
Raised(what) == [error |-> what]

\* HeftPlanner._plan_with_qos_optimization
PlanWithQosOptimization(res, jobs, reqs, planner_objective) ==
    LET Found(q, result) ==
            IF result.ncores = None THEN Raised("ValueError: deadline")
            ELSE [error |-> "", plan |-> result.plan, graph |-> result.graph,
                  placed |-> result.placed, qos |-> q, ncores |-> result.ncores]
        Search(max_workflow_resources, q) ==
            IF q = None THEN Raised("ValueError: no QoS")
            ELSE IF res.qos[q].max_cores = None THEN Raised("TypeError")
            ELSE Found(q, BinarySearchResources(
                              res, reqs, planner_objective, max_workflow_resources,
                              Min(max_workflow_resources * 2, res.qos[q].max_cores),
                              NotFound))
        Largest(max_workflow_resources) ==
            Search(max_workflow_resources,
                   FitsInQos(res, jobs, planner_objective, max_workflow_resources))
    \* max() over no requirement raises in _get_max_ncores
    IN  IF reqs = <<>> THEN Raised("ValueError: max() of an empty sequence")
        ELSE Largest(GetMaxNcores(reqs))

\* HeftPlanner._plan_batch_mode
PlanBatchMode(res, reqs, requested) ==
    LET Planned(r) == [error |-> "", plan |-> r.plan, graph |-> r.graph,
                       placed |-> r.placed, qos |-> None, ncores |-> requested]
    \* an empty resource_requirements is falsy: _calculate_plan takes the planner's
    \* own _resource_requirements, which the Bookkeeper never sets (None)
    IN  IF reqs = <<>> THEN Raised("AttributeError: NoneType has no values")
        ELSE Planned(CalculatePlan(res, reqs, requested))

\* HeftPlanner.plan
Plan(res, jobs, reqs, schema, requested, planner_objective) ==
    IF schema = "batch" THEN PlanBatchMode(res, reqs, requested)
    ELSE PlanWithQosOptimization(res, jobs, reqs, planner_objective)

\* ------------------------------------------------------- Campaign and DAG
ById(camp, id) == camp[CHOOSE i \in DOMAIN camp : camp[i].id = id]
Ids(camp) == {camp[i].id : i \in DOMAIN camp}

\* the ids of the workflows that name p in depends, in list order: DAG.graph.adj[p]
RECURSIVE Children(_, _)
Children(camp, p) ==
    IF camp = <<>> THEN <<>>
    ELSE (IF p \in Head(camp).depends THEN <<Head(camp).id>> ELSE <<>>)
         \o Children(Tail(camp), p)

\* nx.topological_generations: the children of one node lose an incoming edge
RECURSIVE Release(_, _, _)
Release(children, indegree_map, zero_indegree) ==
    IF children = <<>> THEN [indegree_map |-> indegree_map, zero_indegree |-> zero_indegree]
    ELSE LET child == Head(children)
             d == indegree_map[child] - 1
         IN  Release(Tail(children), [indegree_map EXCEPT ![child] = d],
                     IF d = 0 THEN Append(zero_indegree, child) ELSE zero_indegree)

RECURSIVE ReleaseAll(_, _, _)
ReleaseAll(camp, this_generation, acc) ==
    IF this_generation = <<>> THEN acc
    ELSE ReleaseAll(camp, Tail(this_generation),
                    Release(Children(camp, Head(this_generation)),
                            acc.indegree_map, acc.zero_indegree))

RECURSIVE TopologicalGenerations(_, _, _)
TopologicalGenerations(camp, this_generation, indegree_map) ==
    IF this_generation = <<>> THEN <<>>
    ELSE LET r == ReleaseAll(camp, this_generation,
                             [indegree_map |-> indegree_map, zero_indegree |-> <<>>])
         IN  this_generation \o TopologicalGenerations(camp, r.zero_indegree, r.indegree_map)

RECURSIVE ZeroIndegree(_, _)
ZeroIndegree(camp, ids) ==
    IF camp = <<>> THEN <<>>
    ELSE (IF Head(camp).depends \cap ids = {} THEN <<Head(camp).id>> ELSE <<>>)
         \o ZeroIndegree(Tail(camp), ids)

\* Campaign.validate_workflows on a list, then DAG.workflows: the ids in topological order.
\* A name in depends that no workflow of the list carries adds no edge.
CampaignWorkflows(camp) ==
    LET ids == Ids(camp)
    IN  TopologicalGenerations(camp, ZeroIndegree(camp, ids),
            [n \in ids |-> Cardinality(ById(camp, n).depends \cap ids)])

\* ------------------------------------------------------------- Bookkeeper
\* Bookkeeper._get_campaign_requirements: the fallback branch, which is always taken
GetCampaignRequirements(camp, order) ==
    [k \in DOMAIN order |->
        LET w == ById(camp, order[k])
        IN  [id |-> w.id, req_cpus |-> w.ranks * w.threads, req_memory |-> w.memory,
             req_walltime |-> FRoundQ(w.runtime * 11, 10)]]

RECURSIVE SortTimes(_)
SortTimes(times) ==
    IF times = {} THEN <<>>
    ELSE LET m == CHOOSE x \in times : \A y \in times : FLe(x, y)
         IN  <<m>> \o SortTimes(times \ {m})

\* Bookkeeper._update_checkpoints
UpdateCheckpoints(plan) ==
    SortTimes({0} \cup {plan[k].start_time : k \in DOMAIN plan}
                  \cup {plan[k].end_time : k \in DOMAIN plan})

Last(s) == s[Len(s)]

\* mutant: every plan passes the check
VerifyAnyPlan(cps, obj) == TRUE

\* Bookkeeper._verify_objective: False when checkpoints[-1] > objective
VerifyObjective(cps, obj) == ~ FLt(obj, Last(cps))

\* mutant: the budget is rounded down
PilotWalltimeFloor(last, obj) == Min((last * 5) \div 4, obj)

\* int(ceil(min(checkpoints[-1] * 1.25, objective))); the product by 1.25 is exact
PilotWalltime(last, obj) == Min((last * 5 + 3) \div 4, obj)

\* the callbacks the Bookkeeper registers with its enactor, in registration order
Callbacks == <<"state_update_cb", "workflowid_update_cb">>

\* mutant: a workflow whose task failed is stored as FAILED
StateUpdateCbAsReported(states, workflow_ids, new_state) ==
    [w \in DOMAIN states \cup Range(workflow_ids) |->
        IF w \in Range(workflow_ids)
        THEN (IF new_state = DONE /\ w \in DOMAIN rp_tasks /\ rp_tasks[w] = "FAILED"
              THEN FAILED ELSE new_state)
        ELSE states[w]]

\* Bookkeeper.state_update_cb
StateUpdateCb(states, workflow_ids, new_state) ==
    [w \in DOMAIN states \cup Range(workflow_ids) |->
        IF w \in Range(workflow_ids) THEN new_state ELSE states[w]]

\* Bookkeeper.workflowid_update_cb
WorkflowidUpdateCb(execids, workflow_ids, step_ids) ==
    [w \in DOMAIN execids \cup Range(workflow_ids) |->
        IF w \in Range(workflow_ids)
        THEN step_ids[CHOOSE k \in DOMAIN workflow_ids :
                         /\ workflow_ids[k] = w
                         /\ \A j \in DOMAIN workflow_ids : workflow_ids[j] = w => j <= k]
        ELSE execids[w]]

\* self._callbacks[cb](workflow_ids=..., new_state=..., step_ids=...)
Callback(cb, workflow_ids, new_state, step_ids) ==
    /\ IF cb = "state_update_cb"
          THEN /\ workflows_state' = StateUpdateCb(workflows_state, workflow_ids, new_state)
               /\ UNCHANGED workflows_execids
          ELSE /\ workflows_execids' = WorkflowidUpdateCb(workflows_execids, workflow_ids, step_ids)
               /\ UNCHANGED workflows_state
    /\ delivered' = [w \in DOMAIN delivered |->
                        IF w \in Range(workflow_ids)
                        THEN [delivered[w] EXCEPT ![cb] = Append(@, new_state)]
                        ELSE delivered[w]]

\* the plan graph as the work loop reads it
Predecessors(graph, wf_id) == {e[1] : e \in {x \in graph.edges : x[2] = wf_id}}

\* mutant: a workflow is ready as soon as it is NEW, whatever its predecessors
ReadyWhenNew(graph, states, wf_id) == states[wf_id] = NEW_STATE

\* the condition of the work loop on one node of the plan graph
Ready(graph, states, wf_id) ==
    LET predecessors_states == {states[p] : p \in Predecessors(graph, wf_id)}
    IN  /\ predecessors_states = {} \/ predecessors_states = {DONE}
        /\ states[wf_id] = NEW_STATE

\* floor(cores_per_node * (memory / memory_per_node) / len(cores))
ThreadsPerCore(res, entry) ==
    (res.cores_per_node * entry.memory) \div (res.memory_per_node * (entry.c1 - entry.c0))

\* mutant: the caller's loop waits only for workflows that were never submitted
StillRunningOnlyNew(state) == state = NEW_STATE

\* the caller's loop: a workflow whose state is not final keeps the campaign running
StillRunning(state) == state \notin CFINAL

RECURSIVE RemoveFirst(_, _)
RemoveFirst(s, x) ==
    IF s = <<>> THEN <<>>
    ELSE IF Head(s) = x THEN Tail(s) ELSE <<Head(s)>> \o RemoveFirst(Tail(s), x)

RECURSIVE RemoveAll(_, _)
RemoveAll(s, xs) == IF xs = <<>> THEN s ELSE RemoveAll(RemoveFirst(s, Head(xs)), Tail(xs))

\* --------------------------------------------------- Bookkeeper.run (caller)
\* the locals of each thread as they are when its loop body starts; a local is put
\* back to this value when the code no longer reads what it holds
RunLocals == [i |-> 1, cont |-> FALSE]
WorkLocals == [i |-> 1, workflows |-> <<>>, cores |-> <<>>, memory |-> <<>>]
MonitorLocals == [workflows_snapshot |-> <<>>, i |-> 1, finished |-> <<>>]
EnactLocals == [workflows |-> <<>>, i |-> 1, cb |-> 1, exec_workflows |-> <<>>]
EMonitorLocals == [workflows_executing |-> {}, monitoring_list |-> <<>>, i |-> 1,
                   to_remove_wfs |-> <<>>, to_remove_sids |-> <<>>, cb |-> 1]

\* with self._exec_state_lock: every workflow of the campaign starts NEW
RunSeed ==
    /\ run_pc = "start"
    /\ workflows_state' = [w \in Range(workflows) |-> NEW_STATE]
    /\ run_pc' = "start_work"
    /\ UNCHANGED <<inputVars, planVars, bkVars, workflows_execids, delivered, run_local,
                   workVars, monitorVars, enactorVars, enactVars, eterm_pc, emonitorVars,
                   driver_pc>>

RunStartWork ==
    /\ run_pc = "start_work"
    /\ work_pc' = "start"
    /\ run_pc' = "start_monitor"
    /\ UNCHANGED <<inputVars, planVars, bkVars, cbVars, run_local, work_local, monitorVars,
                   enactorVars, enactVars, eterm_pc, emonitorVars, driver_pc>>

RunStartMonitor ==
    /\ run_pc = "start_monitor"
    /\ monitor_pc' = "outer"
    /\ run_pc' = "wait_checkpoints"
    /\ UNCHANGED <<inputVars, planVars, bkVars, cbVars, run_local, workVars, monitor_local,
                   enactorVars, enactVars, eterm_pc, emonitorVars, driver_pc>>

\* while self._checkpoints is None: continue
RunAwaitCheckpoints ==
    /\ run_pc = "wait_checkpoints"
    /\ checkpoints # <<>>
    /\ run_pc' = "while"
    /\ UNCHANGED <<inputVars, planVars, bkVars, cbVars, run_local, workVars, monitorVars,
                   enactorVars, enactVars, eterm_pc, emonitorVars, driver_pc>>

\* while self._campaign["state"] not in CFINAL: cont = False
RunWhile ==
    /\ run_pc = "while"
    /\ IF campaign_state \in CFINAL
          THEN run_pc' = "after_loop" /\ UNCHANGED run_local
          ELSE run_pc' = "for" /\ run_local' = RunLocals
    /\ UNCHANGED <<inputVars, planVars, bkVars, cbVars, workVars, monitorVars,
                   enactorVars, enactVars, eterm_pc, emonitorVars, driver_pc>>

\* one iteration of: for workflow in self._campaign["campaign"].workflows
RunFor ==
    /\ run_pc = "for"
    /\ IF run_local.i > Len(workflows)
          THEN run_pc' = "if_done" /\ UNCHANGED <<run_local, campaign_state>>
          ELSE LET state == workflows_state[workflows[run_local.i]]
               IN  IF state = FAILED
                   THEN /\ campaign_state' = FAILED
                        /\ run_pc' = "if_done"
                        /\ UNCHANGED run_local
                   ELSE /\ run_local' = [i |-> run_local.i + 1,
                                         cont |-> run_local.cont \/ StillRunning(state)]
                        /\ UNCHANGED <<run_pc, campaign_state>>
    /\ UNCHANGED <<inputVars, planVars, checkpoints, objective, workflows_to_monitor,
                   unavail_resources, est_end_times, terminate_event, cbVars, workVars,
                   monitorVars, enactorVars, enactVars, eterm_pc, emonitorVars, driver_pc>>

\* if not cont and not self._workflows_to_monitor: state = DONE
RunIfDone ==
    /\ run_pc = "if_done"
    /\ IF ~ run_local.cont /\ workflows_to_monitor = <<>>
          THEN campaign_state' = DONE
          ELSE UNCHANGED campaign_state
    /\ run_pc' = "while"
    /\ run_local' = RunLocals
    /\ UNCHANGED <<inputVars, planVars, checkpoints, objective, workflows_to_monitor,
                   unavail_resources, est_end_times, terminate_event, cbVars,
                   workVars, monitorVars, enactorVars, enactVars, eterm_pc, emonitorVars,
                   driver_pc>>

\* after the loop: if state not in CFINAL: state = DONE; then finally: self.terminate()
RunAfterLoop ==
    /\ run_pc = "after_loop"
    /\ IF campaign_state \notin CFINAL
          THEN campaign_state' = DONE
          ELSE UNCHANGED campaign_state
    /\ run_pc' = "terminate"
    /\ UNCHANGED <<inputVars, planVars, checkpoints, objective, workflows_to_monitor,
                   unavail_resources, est_end_times, terminate_event, cbVars, run_local,
                   workVars, monitorVars, enactorVars, enactVars, eterm_pc, emonitorVars,
                   driver_pc>>

\* ------------------------------------------------------ Bookkeeper.terminate
\* self._enactor.terminate()
TerminateEnactor ==
    /\ run_pc = "terminate"
    /\ eterm_pc = "idle"
    /\ eterm_pc' = "called"
    /\ run_pc' = "enactor_terminate"
    /\ UNCHANGED <<inputVars, planVars, bkVars, cbVars, run_local, workVars, monitorVars,
                   enactorVars, enactVars, emonitorVars, driver_pc>>

\* self._terminate_event.set()
TerminateSetEvent ==
    /\ run_pc = "enactor_terminate"
    /\ eterm_pc = "returned"
    /\ terminate_event' = TRUE
    /\ run_pc' = "join_monitor"
    /\ UNCHANGED <<inputVars, planVars, campaign_state, checkpoints, objective,
                   workflows_to_monitor, unavail_resources, est_end_times, cbVars, run_local,
                   workVars, monitorVars, enactorVars, enactVars, eterm_pc, emonitorVars,
                   driver_pc>>

\* self._monitoring_thread.join()
TerminateJoinMonitor ==
    /\ run_pc = "join_monitor"
    /\ monitor_pc \in {"exited", "crashed"}
    /\ run_pc' = "join_work"
    /\ UNCHANGED <<inputVars, planVars, bkVars, cbVars, run_local, workVars, monitorVars,
                   enactorVars, enactVars, eterm_pc, emonitorVars, driver_pc>>

\* self._work_thread.join(); run() returns
TerminateJoinWork ==
    /\ run_pc = "join_work"
    /\ work_pc \in {"returned", "crashed"}
    /\ run_pc' = "returned"
    /\ UNCHANGED <<inputVars, planVars, bkVars, cbVars, run_local, workVars, monitorVars,
                   enactorVars, enactVars, eterm_pc, emonitorVars, driver_pc>>

\* ------------------------------------------------------------ Bookkeeper.work
\* mutant: the work thread goes on to plan without setting PLANNING
WorkPlanningUnmarked ==
    /\ work_pc = "start"
    /\ work_pc' = "plan"
    /\ UNCHANGED <<inputVars, planVars, bkVars, cbVars, runVars,
                   work_local, monitorVars, enactorVars, enactVars, eterm_pc, emonitorVars,
                   driver_pc>>

\* if self._plan is None: campaign state to PLANNING
WorkPlanning ==
    /\ work_pc = "start"
    /\ campaign_state' = PLANNING
    /\ work_pc' = "plan"
    /\ UNCHANGED <<inputVars, planVars, checkpoints, objective, workflows_to_monitor,
                   unavail_resources, est_end_times, terminate_event, cbVars, runVars,
                   work_local, monitorVars, enactorVars, enactVars, eterm_pc, emonitorVars,
                   driver_pc>>

\* _get_campaign_requirements() and self._planner.plan(...); an exception plan() raises
\* is caught nowhere in work(): the thread ends
WorkPlan ==
    /\ work_pc = "plan"
    /\ requirements' = GetCampaignRequirements(campaign, workflows)
    /\ planned' = Plan(resource, existing_jobs, requirements', execution_schema,
                       requested_resources, deadline)
    /\ work_pc' = IF planned'.error = "" THEN "checkpoints" ELSE "crashed"
    /\ UNCHANGED <<inputVars, bkVars, cbVars, runVars, work_local, monitorVars,
                   enactorVars, enactVars, eterm_pc, emonitorVars, driver_pc>>

\* self._update_checkpoints()
WorkUpdateCheckpoints ==
    /\ work_pc = "checkpoints"
    /\ checkpoints' = UpdateCheckpoints(planned.plan)
    /\ work_pc' = "verify"
    /\ UNCHANGED <<inputVars, planVars, campaign_state, objective, workflows_to_monitor,
                   unavail_resources, est_end_times, terminate_event, cbVars, runVars,
                   work_local, monitorVars, enactorVars, enactVars, eterm_pc, emonitorVars,
                   driver_pc>>

\* if not self._verify_objective(): FAILED, return; else the pilot's walltime
WorkVerify ==
    /\ work_pc = "verify"
    /\ checkpoints' = UpdateCheckpoints(planned.plan)
    /\ IF VerifyObjective(checkpoints', objective)
          THEN /\ objective' = PilotWalltime(Last(checkpoints'), objective)
               /\ work_pc' = "setup"
               /\ UNCHANGED campaign_state
          ELSE /\ campaign_state' = FAILED
               /\ work_pc' = "returned"
               /\ UNCHANGED objective
    /\ UNCHANGED <<inputVars, planVars, workflows_to_monitor, unavail_resources,
                   est_end_times, terminate_event, cbVars, runVars, work_local, monitorVars,
                   enactorVars, enactVars, eterm_pc, emonitorVars, driver_pc>>

\* self._enactor.setup(resource=, walltime=, cores=, execution_schema=):
\* DryrunEnactor.setup takes no execution_schema, the call raises TypeError
WorkSetup ==
    /\ work_pc = "setup"
    /\ IF dryrun
          THEN work_pc' = "crashed" /\ UNCHANGED enactor_resource
          ELSE work_pc' = "executing" /\ enactor_resource' = resource.name
    /\ UNCHANGED <<inputVars, planVars, bkVars, cbVars, runVars, work_local, monitorVars,
                   to_monitor, execution_status, monitoring_thread, terminate_monitor,
                   rp_tasks, enactVars, eterm_pc, emonitorVars, driver_pc>>

WorkExecuting ==
    /\ work_pc = "executing"
    /\ campaign_state' = EXECUTING
    /\ work_pc' = "while"
    /\ UNCHANGED <<inputVars, planVars, checkpoints, objective, workflows_to_monitor,
                   unavail_resources, est_end_times, terminate_event, cbVars, runVars,
                   work_local, monitorVars, enactorVars, enactVars, eterm_pc, emonitorVars,
                   driver_pc>>

\* while not self._terminate_event.is_set(): if not self._verify_objective(): ... else: ...
WorkWhile ==
    /\ work_pc = "while"
    /\ IF terminate_event
          THEN /\ work_pc' = "returned"
               /\ UNCHANGED <<checkpoints, campaign_state, work_local>>
          ELSE /\ checkpoints' = UpdateCheckpoints(planned.plan)
               /\ IF VerifyObjective(checkpoints', objective)
                     THEN /\ work_local' = WorkLocals
                          /\ work_pc' = "nodes"
                          /\ UNCHANGED campaign_state
                     ELSE /\ campaign_state' = FAILED
                          /\ UNCHANGED <<work_pc, work_local>>
    /\ UNCHANGED <<inputVars, planVars, objective, workflows_to_monitor, unavail_resources,
                   est_end_times, terminate_event, cbVars, runVars, monitorVars,
                   enactorVars, enactVars, eterm_pc, emonitorVars, driver_pc>>

\* self._plan[wf_id - 1] on the plan sorted by workflow id: a Python list index,
\* which counts from the end when it is negative and raises IndexError past the end
InPlan(plan, wf_id) == wf_id <= Len(plan)
PlanAt(plan, wf_id) == IF wf_id = 0 THEN plan[Len(plan)] ELSE plan[wf_id]

\* one iteration of: for wf_id in self._plan_graph.nodes(); an IndexError is caught
\* nowhere in work(): the thread ends
WorkNode ==
    /\ work_pc = "nodes"
    /\ work_local.i <= Len(planned.graph.nodes)
    /\ LET wf_id == planned.graph.nodes[work_local.i]
           Select(entry) ==
               /\ work_local' =
                      [i |-> work_local.i + 1,
                       workflows |-> Append(work_local.workflows, entry.workflow),
                       cores |-> Append(work_local.cores,
                                        [cores |-> <<entry.c0, entry.c1>>,
                                         threads_per_core |-> ThreadsPerCore(resource, entry)]),
                       memory |-> Append(work_local.memory, entry.memory)]
               /\ est_end_times' =
                      [c \in DOMAIN est_end_times \cup Cores(entry) |->
                          IF c \in Cores(entry) THEN entry.start_time ELSE est_end_times[c]]
               /\ UNCHANGED work_pc
       IN  IF ~ Ready(planned.graph, workflows_state, wf_id)
           THEN /\ work_local' = [work_local EXCEPT !.i = @ + 1]
                /\ UNCHANGED <<est_end_times, work_pc>>
           ELSE IF ~ InPlan(planned.plan, wf_id)
           THEN /\ work_pc' = "crashed"
                /\ UNCHANGED <<est_end_times, work_local>>
           ELSE Select(PlanAt(planned.plan, wf_id))
    /\ UNCHANGED <<inputVars, planVars, campaign_state, checkpoints, objective,
                   workflows_to_monitor, unavail_resources, terminate_event, cbVars, runVars,
                   monitorVars, enactorVars, enactVars, eterm_pc, emonitorVars,
                   driver_pc>>

\* the bound of the number of calls of enact() that are followed
MaxEnactCalls == 2

\* if workflows and cores and memory: self._enactor.enact(workflows=workflows)
WorkEnact ==
    /\ work_pc = "nodes"
    /\ work_local.i > Len(planned.graph.nodes)
    /\ IF work_local.workflows # <<>>
          THEN /\ Len(enacted) < MaxEnactCalls
               /\ enact_pc = "idle"
               /\ enact_pc' = "for"
               /\ enact_local' = [EnactLocals EXCEPT !.workflows = work_local.workflows]
               /\ enacted' = Append(enacted, work_local.workflows)
               /\ work_pc' = "enacting"
          ELSE /\ work_pc' = "while"
               /\ UNCHANGED enactVars
    /\ UNCHANGED <<inputVars, planVars, bkVars, cbVars, runVars, work_local, monitorVars,
                   enactorVars, eterm_pc, emonitorVars, driver_pc>>

\* enact() returned; with self._monitor_lock: the lists the monitor thread reads grow
WorkMonitorLists ==
    /\ work_pc = "enacting"
    /\ enact_pc = "idle"
    /\ workflows_to_monitor' = workflows_to_monitor \o work_local.workflows
    /\ unavail_resources' = unavail_resources \o work_local.cores
    /\ work_pc' = "while"
    /\ work_local' = WorkLocals
    /\ UNCHANGED <<inputVars, planVars, campaign_state, checkpoints, objective,
                   est_end_times, terminate_event, cbVars, runVars, monitorVars,
                   enactorVars, enactVars, eterm_pc, emonitorVars, driver_pc>>

\* --------------------------------------------------------- Bookkeeper.monitor
\* while not self._terminate_event.is_set()
MonitorOuter ==
    /\ monitor_pc = "outer"
    /\ monitor_pc' = IF terminate_event THEN "exited" ELSE "inner"
    /\ UNCHANGED <<inputVars, planVars, bkVars, cbVars, runVars, workVars, monitor_local,
                   enactorVars, enactVars, eterm_pc, emonitorVars, driver_pc>>

\* while self._workflows_to_monitor: snapshot under the monitor lock
MonitorInner ==
    /\ monitor_pc = "inner"
    /\ IF workflows_to_monitor # <<>>
          THEN /\ monitor_local' = [workflows_snapshot |-> workflows_to_monitor, i |-> 1,
                                    finished |-> <<>>]
               /\ monitor_pc' = "for"
          ELSE /\ monitor_pc' = "outer"
               /\ UNCHANGED monitor_local
    /\ UNCHANGED <<inputVars, planVars, bkVars, cbVars, runVars, workVars,
                   enactorVars, enactVars, eterm_pc, emonitorVars, driver_pc>>

\* one iteration of: for i in range(len(workflows_snapshot)); _record() splits the
\* exec id of the workflow, which is None until workflowid_update_cb delivers DONE
MonitorFor ==
    /\ monitor_pc = "for"
    /\ monitor_local.i <= Len(monitor_local.workflows_snapshot)
    /\ LET wf == monitor_local.workflows_snapshot[monitor_local.i]
       IN  IF workflows_state[wf] \in CFINAL
           THEN IF ~ dryrun /\ workflows_execids[wf] = None
                THEN monitor_pc' = "crashed" /\ UNCHANGED monitor_local
                ELSE /\ monitor_local' =
                           [monitor_local EXCEPT
                               !.i = @ + 1,
                               !.finished = Append(@, [workflow |-> wf,
                                   resource |-> unavail_resources[monitor_local.i]])]
                     /\ UNCHANGED monitor_pc
           ELSE /\ monitor_local' = [monitor_local EXCEPT !.i = @ + 1]
                /\ UNCHANGED monitor_pc
    /\ UNCHANGED <<inputVars, planVars, bkVars, cbVars, runVars, workVars,
                   enactorVars, enactVars, eterm_pc, emonitorVars, driver_pc>>

RECURSIVE RemoveFinished(_, _, _)
RemoveFinished(wfs, res, finished) ==
    IF finished = <<>> THEN [workflows |-> wfs, resources |-> res]
    ELSE RemoveFinished(RemoveFirst(wfs, Head(finished).workflow),
                        RemoveFirst(res, Head(finished).resource), Tail(finished))

\* if finished: remove them under the monitor lock; else sleep
MonitorRemove ==
    /\ monitor_pc = "for"
    /\ monitor_local.i > Len(monitor_local.workflows_snapshot)
    /\ LET r == RemoveFinished(workflows_to_monitor, unavail_resources,
                               monitor_local.finished)
       IN  /\ workflows_to_monitor' = r.workflows
           /\ unavail_resources' = r.resources
    /\ monitor_pc' = "inner"
    /\ monitor_local' = MonitorLocals
    /\ UNCHANGED <<inputVars, planVars, campaign_state, checkpoints, objective,
                   est_end_times, terminate_event, cbVars, runVars, workVars,
                   enactorVars, enactVars, eterm_pc, emonitorVars, driver_pc>>

\* ------------------------------------------------------------------ Enactor
\* rp.FINAL, the final task states of RADICAL-Pilot
RpFinal == {"DONE", "FAILED", "CANCELED"}

\* the step id a finished task reports: rp_workflow.stdout.split()[-1], 0 in a dry run
StepId(wf) == IF dryrun THEN 0 ELSE wf

DictSet(d, k, v) == [x \in DOMAIN d \cup {k} |-> IF x = k THEN v ELSE d[x]]

\* one iteration of: for workflow in workflows -- up to the end of the locked block
\* mutant: no workflow counts as tracked
TrackedNever(status, wf) == FALSE

\* if workflow.id in self._execution_status
Tracked(status, wf) == wf \in DOMAIN status

EnactFor ==
    /\ enact_pc = "for"
    /\ IF enact_local.i > Len(enact_local.workflows)
          THEN /\ enact_pc' = IF dryrun THEN "start_monitor" ELSE "submit"
               /\ UNCHANGED <<enact_local, to_monitor, execution_status>>
          ELSE LET wf == enact_local.workflows[enact_local.i]
               IN  IF Tracked(execution_status, wf)
                   THEN /\ enact_local' = [enact_local EXCEPT !.i = @ + 1]
                        /\ UNCHANGED <<enact_pc, to_monitor, execution_status>>
                   ELSE /\ to_monitor' = Append(to_monitor, wf)
                        /\ execution_status' = DictSet(execution_status, wf, EXECUTING)
                        /\ enact_local' = [enact_local EXCEPT
                                              !.cb = 1, !.exec_workflows = Append(@, wf)]
                        /\ enact_pc' = "cb"
    /\ UNCHANGED <<inputVars, planVars, bkVars, cbVars, runVars, workVars, monitorVars,
                   enactor_resource, monitoring_thread, terminate_monitor, rp_tasks,
                   enacted, eterm_pc, emonitorVars, driver_pc>>

\* one iteration of: for cb in self._callbacks -- outside the locked block
EnactCallback ==
    /\ enact_pc = "cb"
    /\ Callback(Callbacks[enact_local.cb], <<enact_local.workflows[enact_local.i]>>,
                EXECUTING, <<None>>)
    /\ IF enact_local.cb = Len(Callbacks)
          THEN /\ enact_local' = [enact_local EXCEPT !.i = @ + 1]
               /\ enact_pc' = "for"
          ELSE /\ enact_local' = [enact_local EXCEPT !.cb = @ + 1]
               /\ UNCHANGED enact_pc
    /\ UNCHANGED <<inputVars, planVars, bkVars, runVars, workVars, monitorVars,
                   enactorVars, enacted, eterm_pc, emonitorVars, driver_pc>>

\* RPEnactor: self._rp_tmgr.submit_tasks(exec_workflows)
EnactSubmit ==
    /\ enact_pc = "submit"
    /\ rp_tasks' = [t \in DOMAIN rp_tasks \cup Range(enact_local.exec_workflows) |->
                       IF t \in Range(enact_local.exec_workflows)
                       THEN "AGENT_EXECUTING" ELSE rp_tasks[t]]
    /\ enact_pc' = "start_monitor"
    /\ UNCHANGED <<inputVars, planVars, bkVars, cbVars, runVars, workVars, monitorVars,
                   enactor_resource, to_monitor, execution_status, monitoring_thread,
                   terminate_monitor, enact_local, enacted, eterm_pc, emonitorVars,
                   driver_pc>>

\* if self._monitoring_thread is None [and self._to_monitor, in a dry run]: start it
EnactStartMonitor ==
    /\ enact_pc = "start_monitor"
    /\ IF monitoring_thread = "None" /\ (dryrun => to_monitor # <<>>)
          THEN monitoring_thread' = "monitor-thread" /\ emonitor_pc' = "while"
          ELSE UNCHANGED <<monitoring_thread, emonitor_pc>>
    /\ enact_pc' = "idle"
    /\ enact_local' = EnactLocals
    /\ UNCHANGED <<inputVars, planVars, bkVars, cbVars, runVars, workVars, monitorVars,
                   enactor_resource, to_monitor, execution_status, terminate_monitor,
                   rp_tasks, enacted, eterm_pc, emonitor_local, driver_pc>>

\* ---------------------------------------------------------- Enactor._monitor
\* while not self._terminate_monitor.is_set()
EMonitorWhile ==
    /\ emonitor_pc = "while"
    /\ emonitor_pc' = IF terminate_monitor THEN "exited" ELSE "if"
    /\ UNCHANGED <<inputVars, planVars, bkVars, cbVars, runVars, workVars, monitorVars,
                   enactorVars, enactVars, eterm_pc, emonitor_local, driver_pc>>

\* if self._to_monitor: workflows_executing = the tasks the task manager lists
\* (RPEnactor) or the monitored workflows (DryrunEnactor)
EMonitorIf ==
    /\ emonitor_pc = "if"
    /\ IF to_monitor # <<>>
          THEN /\ emonitor_local' =
                     [emonitor_local EXCEPT
                         !.workflows_executing =
                             IF dryrun THEN Range(to_monitor) ELSE DOMAIN rp_tasks]
               /\ emonitor_pc' = "copy"
          ELSE /\ emonitor_pc' = "while"
               /\ UNCHANGED emonitor_local
    /\ UNCHANGED <<inputVars, planVars, bkVars, cbVars, runVars, workVars, monitorVars,
                   enactorVars, enactVars, eterm_pc, driver_pc>>

\* monitoring_list = deepcopy(self._to_monitor)
EMonitorCopy ==
    /\ emonitor_pc = "copy"
    /\ emonitor_local' = [emonitor_local EXCEPT
                             !.monitoring_list = to_monitor, !.i = 1,
                             !.to_remove_wfs = <<>>, !.to_remove_sids = <<>>]
    /\ emonitor_pc' = "for"
    /\ UNCHANGED <<inputVars, planVars, bkVars, cbVars, runVars, workVars, monitorVars,
                   enactorVars, enactVars, eterm_pc, driver_pc>>

\* mutant: no workflow is found among the executing ones
InExecutingNever(workflow_id, workflows_executing) == FALSE

\* if f"workflow.{workflow_id}" in workflows_executing
InExecuting(workflow_id, workflows_executing) == workflow_id \in workflows_executing

\* one iteration of: for workflow_id in monitoring_list
EMonitorFor ==
    /\ emonitor_pc = "for"
    /\ emonitor_local.i <= Len(emonitor_local.monitoring_list)
    /\ LET wf == emonitor_local.monitoring_list[emonitor_local.i]
       IN  IF /\ InExecuting(wf, emonitor_local.workflows_executing)
              /\ dryrun \/ rp_tasks[wf] \in RpFinal
           THEN /\ execution_status' = DictSet(execution_status, wf, DONE)
                /\ emonitor_local' = [emonitor_local EXCEPT
                                         !.i = @ + 1,
                                         !.to_remove_wfs = Append(@, wf),
                                         !.to_remove_sids = Append(@, StepId(wf))]
           ELSE /\ emonitor_local' = [emonitor_local EXCEPT !.i = @ + 1]
                /\ UNCHANGED execution_status
    /\ UNCHANGED <<inputVars, planVars, bkVars, cbVars, runVars, workVars, monitorVars,
                   enactor_resource, to_monitor, monitoring_thread, terminate_monitor,
                   rp_tasks, enactVars, eterm_pc, emonitor_pc, driver_pc>>

\* if to_remove_wfs: ...
EMonitorEndFor ==
    /\ emonitor_pc = "for"
    /\ emonitor_local.i > Len(emonitor_local.monitoring_list)
    /\ IF emonitor_local.to_remove_wfs # <<>>
          THEN emonitor_pc' = "cb" /\ emonitor_local' = [emonitor_local EXCEPT !.cb = 1]
          ELSE emonitor_pc' = "while" /\ emonitor_local' = EMonitorLocals
    /\ UNCHANGED <<inputVars, planVars, bkVars, cbVars, runVars, workVars, monitorVars,
                   enactorVars, enactVars, eterm_pc, driver_pc>>

\* one iteration of: for cb in self._callbacks -- outside the locked block
EMonitorCallback ==
    /\ emonitor_pc = "cb"
    /\ Callback(Callbacks[emonitor_local.cb], emonitor_local.to_remove_wfs, DONE,
                emonitor_local.to_remove_sids)
    /\ IF emonitor_local.cb = Len(Callbacks)
          THEN emonitor_pc' = "remove" /\ UNCHANGED emonitor_local
          ELSE emonitor_local' = [emonitor_local EXCEPT !.cb = @ + 1]
               /\ UNCHANGED emonitor_pc
    /\ UNCHANGED <<inputVars, planVars, bkVars, runVars, workVars, monitorVars,
                   enactorVars, enactVars, eterm_pc, driver_pc>>

\* with self._monitoring_lock: for wid in to_remove_wfs: self._to_monitor.remove(wid)
EMonitorRemove ==
    /\ emonitor_pc = "remove"
    /\ to_monitor' = RemoveAll(to_monitor, emonitor_local.to_remove_wfs)
    /\ emonitor_pc' = "while"
    /\ emonitor_local' = EMonitorLocals
    /\ UNCHANGED <<inputVars, planVars, bkVars, cbVars, runVars, workVars, monitorVars,
                   enactor_resource, execution_status, monitoring_thread, terminate_monitor,
                   rp_tasks, enactVars, eterm_pc, driver_pc>>

\* --------------------------------------------------------- Enactor.terminate
\* if self._monitoring_thread: self._terminate_monitor.set()
EnactorTerminate ==
    /\ eterm_pc = "called"
    /\ IF monitoring_thread # "None"
          THEN terminate_monitor' = TRUE
          ELSE UNCHANGED terminate_monitor
    /\ eterm_pc' = "join"
    /\ UNCHANGED <<inputVars, planVars, bkVars, cbVars, runVars, workVars, monitorVars,
                   enactor_resource, to_monitor, execution_status, monitoring_thread,
                   rp_tasks, enactVars, emonitorVars, driver_pc>>

\* self._monitoring_thread.join(); RPEnactor then closes the pilot manager and the
\* session, which cancels the tasks that are not final
EnactorJoin ==
    /\ eterm_pc = "join"
    /\ monitoring_thread # "None" => emonitor_pc \in {"exited", "crashed"}
    /\ rp_tasks' = [t \in DOMAIN rp_tasks |->
                       IF rp_tasks[t] \in RpFinal THEN rp_tasks[t] ELSE "CANCELED"]
    /\ eterm_pc' = "returned"
    /\ UNCHANGED <<inputVars, planVars, bkVars, cbVars, runVars, workVars, monitorVars,
                   enactor_resource, to_monitor, execution_status, monitoring_thread,
                   terminate_monitor, enactVars, emonitorVars, driver_pc>>

\* ------------------------------------------------- the batch system (RADICAL-Pilot)
\* a submitted task ends, successfully or not, while the session is open
TaskOutcomes == {"DONE", "FAILED"}

TaskFinishes ==
    /\ eterm_pc # "returned"
    /\ \E t \in DOMAIN rp_tasks, final \in TaskOutcomes :
          /\ rp_tasks[t] \notin RpFinal
          /\ rp_tasks' = [rp_tasks EXCEPT ![t] = final]
    /\ UNCHANGED <<inputVars, planVars, bkVars, cbVars, runVars, workVars, monitorVars,
                   enactor_resource, to_monitor, execution_status, monitoring_thread,
                   terminate_monitor, enactVars, eterm_pc, emonitorVars, driver_pc>>

\* ------------------------------------- a caller of enact() other than work()

\* the non-empty batches of workflows, each in campaign order
RECURSIVE SubSeq2(_, _)
SubSeq2(s, keep) ==
    IF s = <<>> THEN <<>>
    ELSE (IF Head(s) \in keep THEN <<Head(s)>> ELSE <<>>) \o SubSeq2(Tail(s), keep)

Batches == {SubSeq2(workflows, keep) : keep \in (SUBSET Range(workflows)) \ {{}}}

\* enactor.setup(resource, walltime, cores)
DriverSetup ==
    /\ driver_pc = "setup"
    /\ enactor_resource' = resource.name
    /\ driver_pc' = "ready"
    /\ UNCHANGED <<inputVars, planVars, bkVars, cbVars, runVars, workVars, monitorVars,
                   to_monitor, execution_status, monitoring_thread, terminate_monitor,
                   rp_tasks, enactVars, eterm_pc, emonitorVars>>

\* enactor.enact(workflows=batch)
DriverEnact ==
    /\ driver_pc = "ready"
    /\ enact_pc = "idle"
    /\ Len(enacted) < MaxEnactCalls
    /\ \E batch \in Batches :
          /\ enact_local' = [EnactLocals EXCEPT !.workflows = batch]
          /\ enacted' = Append(enacted, batch)
    /\ enact_pc' = "for"
    /\ UNCHANGED <<inputVars, planVars, bkVars, cbVars, runVars, workVars, monitorVars,
                   enactorVars, eterm_pc, emonitorVars, driver_pc>>

\* enactor.terminate()
DriverTerminate ==
    /\ driver_pc = "ready"
    /\ enact_pc = "idle"
    /\ eterm_pc' = "called"
    /\ driver_pc' = "terminating"
    /\ UNCHANGED <<inputVars, planVars, bkVars, cbVars, runVars, workVars, monitorVars,
                   enactorVars, enactVars, emonitorVars>>

DriverDone ==
    /\ driver_pc = "terminating"
    /\ eterm_pc = "returned"
    /\ driver_pc' = "done"
    /\ UNCHANGED <<inputVars, planVars, bkVars, cbVars, runVars, workVars, monitorVars,
                   enactorVars, enactVars, eterm_pc, emonitorVars>>

\* ------------------------------------------------------------------- inputs
QosNames == {"short", "long"}
NoJobs == [q \in QosNames |-> <<>>]

\* a cluster shaped like the registered resources, scaled down
TestResource ==
    [name |-> "test", nodes |-> 2, cores_per_node |-> 2, memory_per_node |-> 10,
     qos |-> << [name |-> "short", max_walltime |-> 6, max_jobs |-> 1, max_cores |-> 2],
                [name |-> "long", max_walltime |-> 12, max_jobs |-> 2, max_cores |-> 4] >>]

Wf(id, ranks, memory, runtime, depends) ==
    [id |-> id, ranks |-> ranks, threads |-> 1, memory |-> memory, runtime |-> runtime,
     depends |-> depends]

\* the campaigns: workflow ids are 1..N as the driver assigns them.  In the second
\* the dependency is listed before the workflow it depends on; the third asks for
\* more cores than the cluster has, the fourth for more memory than two cores carry.
Campaigns ==
    { << Wf(1, 1, 1, 3, {}), Wf(2, 1, 1, 2, {1}) >>,
      << Wf(1, 1, 1, 2, {2}), Wf(2, 1, 1, 3, {}) >>,
      << Wf(1, 5, 1, 2, {}) >>,
      << Wf(1, 2, 12, 2, {}) >> }

CampaignDeadlines == {4, 9}

\* the fields of the Bookkeeper and of its enactor after Bookkeeper.__init__
Constructed ==
    /\ registered = NoCall
    /\ reg_threads = [t \in RegThreads |-> RegLocals]
    /\ now = 0
    /\ campaign_state = NEW_STATE
    /\ checkpoints = <<>>          \* None
    /\ objective = deadline
    /\ workflows_execids = <<>>
    /\ workflows_to_monitor = <<>>
    /\ unavail_resources = <<>>
    /\ est_end_times = <<>>
    /\ terminate_event = FALSE
    /\ run_local = RunLocals
    /\ work_pc = "unstarted"
    /\ work_local = WorkLocals
    /\ monitor_pc = "unstarted"
    /\ monitor_local = MonitorLocals
    /\ enactor_resource = "None"
    /\ to_monitor = <<>>
    /\ execution_status = <<>>
    /\ monitoring_thread = "None"
    /\ terminate_monitor = FALSE
    /\ rp_tasks = <<>>
    /\ enact_pc = "idle"
    /\ enact_local = EnactLocals
    /\ eterm_pc = "idle"
    /\ emonitor_pc = "unstarted"
    /\ emonitor_local = EMonitorLocals
    /\ delivered = [w \in Range(workflows) |->
                       [state_update_cb |-> <<>>, workflowid_update_cb |-> <<>>]]
    /\ enacted = <<>>

\* Bookkeeper(campaign, policy, target_resource, deadline, dryrun), before run()
Built(campaigns, deadlines) ==
    /\ campaign \in campaigns
    /\ dryrun \in BOOLEAN
    /\ workflows = CampaignWorkflows(campaign)
    /\ resource = TestResource
    /\ existing_jobs = NoJobs
    /\ deadline \in deadlines
    /\ execution_schema \in {"batch", "remote"}
    /\ IF execution_schema = "batch"
          THEN requested_resources \in {1, 2}
          ELSE requested_resources = 0
    /\ requirements = <<>>
    /\ planned = NoPlan
    /\ Constructed
    /\ workflows_state = <<>>
    /\ run_pc = "start"
    /\ driver_pc = "bookkeeper"

Init == Built(Campaigns, CampaignDeadlines)

RunNext ==
    \/ RunSeed \/ RunStartWork \/ RunStartMonitor \/ RunAwaitCheckpoints
    \/ RunWhile \/ RunFor \/ RunIfDone \/ RunAfterLoop
    \/ TerminateEnactor \/ EnactorTerminate \/ EnactorJoin
    \/ TerminateSetEvent \/ TerminateJoinMonitor \/ TerminateJoinWork

\* the steps of the work thread other than the call of plan()
WorkSteps ==
    \/ WorkPlanning \/ WorkUpdateCheckpoints \/ WorkVerify \/ WorkSetup
    \/ WorkExecuting \/ WorkWhile \/ WorkNode \/ WorkEnact
    \/ EnactFor \/ EnactCallback \/ EnactSubmit \/ EnactStartMonitor
    \/ WorkMonitorLists

WorkNext == WorkPlan \/ WorkSteps

MonitorNext == MonitorOuter \/ MonitorInner \/ MonitorFor \/ MonitorRemove

EMonitorNext ==
    \/ EMonitorWhile \/ EMonitorIf \/ EMonitorCopy \/ EMonitorFor \/ EMonitorEndFor
    \/ EMonitorCallback \/ EMonitorRemove

Next == RunNext \/ WorkNext \/ MonitorNext \/ EMonitorNext \/ TaskFinishes

Spec == Init /\ [][Next]_vars

\* campaigns of one workflow: one that fits the cluster, one that asks for more
\* cores than any QoS allows; and the campaign without workflows
SmallCampaigns == { << Wf(1, 1, 1, 2, {}) >>, << Wf(1, 5, 1, 2, {}) >>, << >> }

InitFair == Built(SmallCampaigns, CampaignDeadlines)

\* every thread that can take a step eventually takes one; a submitted task finishes.
\* The call of plan() can be taken exactly when the work thread stands before it,
\* so its fairness is stated on that position: the call returns or raises.
FairSpec ==
    /\ InitFair /\ [][Next]_vars
    /\ WF_vars(RunNext) /\ WF_vars(WorkSteps) /\ []<>(work_pc # "plan")
    /\ WF_vars(MonitorNext) /\ WF_vars(EMonitorNext) /\ WF_vars(TaskFinishes)

\* ------------------------------ the DryrunEnactor driven through its methods
DryrunCampaigns ==
    { << Wf(1, 1, 1, 3, {}), Wf(2, 1, 1, 2, {}) >>,
      << Wf(1, 1, 1, 3, {}), Wf(2, 1, 1, 2, {}), Wf(3, 1, 1, 2, {}) >> }

\* a Bookkeeper built with dryrun=True whose run() has seeded the workflow states;
\* enact() is then called on its enactor, with the Bookkeeper's callbacks registered
InitDryrun ==
    /\ campaign \in DryrunCampaigns
    /\ dryrun = TRUE
    /\ workflows = CampaignWorkflows(campaign)
    /\ resource = TestResource
    /\ existing_jobs = NoJobs
    /\ deadline \in CampaignDeadlines
    /\ execution_schema = "batch"
    /\ requested_resources = 0
    /\ requirements = <<>>
    /\ planned = NoPlan
    /\ Constructed
    /\ workflows_state = [w \in Range(workflows) |-> NEW_STATE]
    /\ run_pc = "start_work"
    /\ driver_pc = "setup"

NextDryrun ==
    \/ DriverSetup \/ DriverEnact \/ DriverTerminate \/ DriverDone
    \/ EnactFor \/ EnactCallback \/ EnactStartMonitor
    \/ EMonitorNext
    \/ EnactorTerminate \/ EnactorJoin

SpecDryrun == InitDryrun /\ [][NextDryrun]_vars

\* an enact() call runs to its end and the monitor thread, once started, is
\* scheduled; when the caller calls enact() or terminate() is up to the caller
EnactSteps == EnactFor \/ EnactCallback \/ EnactStartMonitor

FairDryrun ==
    /\ InitDryrun /\ [][NextDryrun]_vars
    /\ WF_vars(EnactSteps) /\ WF_vars(EMonitorNext)

\* ------------------------------------------------ inputs of the planner runs
Profiles ==
    { [req_cpus |-> 1, req_memory |-> 1,  req_walltime |-> 2],
      [req_cpus |-> 1, req_memory |-> 1,  req_walltime |-> 3],
      [req_cpus |-> 2, req_memory |-> 1,  req_walltime |-> 3],
      [req_cpus |-> 2, req_memory |-> 12, req_walltime |-> 2],
      [req_cpus |-> 1, req_memory |-> 12, req_walltime |-> 2] }

Deadlines == {4, 6, 9, 13}

Resources ==
    { [name |-> "test", nodes |-> 2, cores_per_node |-> 2, memory_per_node |-> 10,
       qos |-> << [name |-> "short", max_walltime |-> 6, max_jobs |-> 1, max_cores |-> 2],
                  [name |-> "long", max_walltime |-> 12, max_jobs |-> 2, max_cores |-> 4] >>],
      [name |-> "open", nodes |-> 2, cores_per_node |-> 2, memory_per_node |-> 10,
       qos |-> << [name |-> "short", max_walltime |-> 6, max_jobs |-> None, max_cores |-> 3],
                  [name |-> "long", max_walltime |-> None, max_jobs |-> None,
                   max_cores |-> None] >>] }

JobTables == {NoJobs, [NoJobs EXCEPT !["short"] = <<[job_id |-> 1, walltime |-> 3, cores |-> 1]>>]}

RequirementLists ==
    UNION { { [i \in 1 .. n |-> [id |-> i, req_cpus |-> f[i].req_cpus,
                                  req_memory |-> f[i].req_memory,
                                  req_walltime |-> f[i].req_walltime]] :
              f \in [1 .. n -> Profiles] } : n \in 1 .. MaxWorkflows }

InitPlan ==
    /\ requirements \in RequirementLists
    /\ workflows = [i \in DOMAIN requirements |-> i]
    /\ campaign = <<>>
    /\ dryrun = FALSE
    /\ resource \in Resources
    /\ deadline \in Deadlines
    /\ execution_schema \in {"batch", "remote"}
    /\ IF execution_schema = "batch"
          THEN requested_resources \in 0 .. MaxCores /\ existing_jobs = NoJobs
          ELSE requested_resources = 0 /\ existing_jobs \in JobTables
    /\ planned = NoPlan
    /\ Constructed
    /\ workflows_state = <<>>
    /\ run_pc = "unstarted"
    /\ driver_pc = "planner"

\* planner.plan(campaign, resource_requirements, execution_schema, requested_resources)
CallPlan ==
    /\ driver_pc = "planner"
    /\ planned = NoPlan
    /\ planned' = Plan(resource, existing_jobs, requirements, execution_schema,
                       requested_resources, deadline)
    /\ UNCHANGED <<inputVars, requirements, bkVars, cbVars, runVars, workVars, monitorVars,
                   enactorVars, enactVars, eterm_pc, emonitorVars, driver_pc>>

NextPlan == CallPlan

SpecPlan == InitPlan /\ [][NextPlan]_vars

Returned == planned.error = ""

\* the instants at which the memory in use can change: the start times of the plan
Live(e, t) == FLe(e.start_time, t) /\ FLt(t, e.end_time)
FMin(a, b) == IF FLt(b, a) THEN b ELSE a
Overlap(a, b) == FLt(FMax(a.start_time, b.start_time), FMin(a.end_time, b.end_time))

\* C2: any two distinct entries of a plan the inner placement produced whose
\* [start, end) windows intersect have disjoint core ranges.
Exclusivity ==
    Returned =>
        \A i, j \in DOMAIN planned.plan :
            (i # j /\ Overlap(planned.plan[i], planned.plan[j]))
                => Cores(planned.plan[i]) \cap Cores(planned.plan[j]) = {}

\* C3: at every instant of the plan span the memory of the entries live at
\* that instant is at most (nodes in use) * memory_per_node, the nodes in use
\* being the cores allocated over cores_per_node, rounded up to whole nodes.
\* The memory in use only rises at a start time, so the start times suffice.
NodesInUse(res, ncores) == (ncores + res.cores_per_node - 1) \div res.cores_per_node

MemoryCeiling ==
    Returned =>
        LET ncores == EffectiveCores(resource, planned.ncores)
        IN  \A k \in DOMAIN planned.plan :
                planned.plan[k].start_time # Inf =>
                    UsedMemory(planned.plan, planned.plan[k].start_time)
                        <= NodesInUse(resource, ncores) * resource.memory_per_node

\* C10: whenever plan() returns in remote mode, cores_allocated <= max_cores of
\* the selected QoS and the greatest end_time of the plan is
\* <= min(deadline, max_walltime of the selected QoS).
QosFeasibility ==
    (Returned /\ execution_schema = "remote") =>
        LET qos == resource.qos[planned.qos]
        IN  /\ planned.ncores <= qos.max_cores
            /\ FLe(MaxEnd(planned.plan), deadline)
            /\ qos.max_walltime # None => FLe(MaxEnd(planned.plan), qos.max_walltime)

\* a remote plan on the second policy that needed more cores than the largest workflow
QosFeasibilityWitness ==
    /\ Returned /\ execution_schema = "remote"
    /\ planned.qos = 2
    /\ planned.ncores > GetMaxNcores(requirements)
    /\ Len(planned.plan) >= 3


\* ============================================ properties of the running campaign
\* every workflow handed to enactor.enact so far, over all calls
Submitted == UNION {Range(enacted[k]) : k \in DOMAIN enacted}

StatePrefixes ==
    {<<NEW_STATE>>, <<NEW_STATE, EXECUTING>>}
        \cup {<<NEW_STATE, EXECUTING, final>> : final \in CFINAL}

\* C4: monotone state.  For every workflow the values state_update_cb has stored in
\* the workflow-state map, after the NEW it starts with, form a prefix of
\* NEW, EXECUTING, final; a final state is never overwritten.
MonotoneState ==
    \A w \in DOMAIN delivered :
        <<NEW_STATE>> \o delivered[w].state_update_cb \in StatePrefixes

\* C5: callback order.  Every registered callback receives, for every workflow,
\* EXECUTING at most once and DONE at most once, and EXECUTING before DONE.
CallbackOrder ==
    \A w \in DOMAIN delivered :
        \A k \in DOMAIN Callbacks :
            delivered[w][Callbacks[k]] \in {<<>>, <<EXECUTING>>, <<EXECUTING, DONE>>}

\* C6: explicit dependencies.  A workflow that names another in depends is known to
\* the enactor only when the workflow it depends on is DONE.
ExplicitDependsRespected ==
    \A y \in DOMAIN execution_status :
        \A x \in ById(campaign, y).depends \cap Ids(campaign) :
            workflows_state[x] = DONE

AllWorkflowsDone ==
    /\ DOMAIN workflows_state = Range(workflows)
    /\ \A w \in Range(workflows) : workflows_state[w] = DONE

\* C7: liveness of a dry run.  Once the plan of a dry-run campaign has passed the
\* deadline check, every workflow eventually is DONE, the campaign is DONE and run()
\* has returned.
DryrunLiveness ==
    (dryrun /\ work_pc = "setup")
        ~> (AllWorkflowsDone /\ campaign_state = DONE /\ run_pc = "returned")

\* C8: fatal planner errors.  When plan() raises in the work thread, the campaign
\* eventually is FAILED and run() has gone through terminate() and returned.
PlannerErrorFatal ==
    (work_pc = "crashed" /\ planned.error # "")
        ~> (campaign_state = FAILED /\ run_pc = "returned")

\* the caller has left the main loop of run()
LoopLeft ==
    run_pc \in {"after_loop", "terminate", "enactor_terminate", "join_monitor",
                "join_work", "returned"}

AnyWorkflowFailed == \E w \in DOMAIN workflows_state : workflows_state[w] = FAILED

AllWorkflowsFinal == \A w \in DOMAIN workflows_state : workflows_state[w] \in CFINAL

DeadlineMissed == checkpoints # <<>> /\ ~ VerifyObjective(checkpoints, objective)

MeetsDeadline(n) == FLe(MaxEnd(CalculatePlan(resource, requirements, n).plan), deadline)

\* the range of core counts the remote planner searches on the QoS it selected
SearchLow == GetMaxNcores(requirements)
SearchHigh(q) == Min(2 * SearchLow, resource.qos[q].max_cores)
SelectedQos == FitsInQos(resource, existing_jobs, deadline, SearchLow)
Searched ==
    /\ execution_schema = "remote"
    /\ planned # NoPlan
    /\ SelectedQos # None
    /\ resource.qos[SelectedQos].max_cores # None

\* C11: minimal allocation.  In remote mode the ncores plan() returns is the smallest
\* value of [max_ncores, min(2 * max_ncores, qos.max_cores)] whose inner placement
\* ends by the deadline, and plan() fails only if no value of the range does.
MinimalAllocation ==
    Searched =>
        IF Returned
        THEN /\ planned.ncores \in SearchLow .. SearchHigh(SelectedQos)
             /\ MeetsDeadline(planned.ncores)
             /\ \A n \in SearchLow .. planned.ncores - 1 : ~ MeetsDeadline(n)
        ELSE \A n \in SearchLow .. SearchHigh(SelectedQos) : ~ MeetsDeadline(n)

\* planner runs in remote mode over workloads whose memory demand is close to what
\* one node carries, on the same clusters
SearchProfiles ==
    { [req_cpus |-> 2, req_memory |-> 1, req_walltime |-> 3],
      [req_cpus |-> 1, req_memory |-> 1, req_walltime |-> 2],
      [req_cpus |-> 1, req_memory |-> 8, req_walltime |-> 2],
      [req_cpus |-> 2, req_memory |-> 8, req_walltime |-> 1] }

SearchRequirementLists ==
    UNION { { [i \in 1 .. n |-> [id |-> i, req_cpus |-> f[i].req_cpus,
                                  req_memory |-> f[i].req_memory,
                                  req_walltime |-> f[i].req_walltime]] :
              f \in [1 .. n -> SearchProfiles] } : n \in 1 .. MaxWorkflows }

InitSearch ==
    /\ requirements \in SearchRequirementLists
    /\ workflows = [i \in DOMAIN requirements |-> i]
    /\ campaign = <<>>
    /\ dryrun = FALSE
    /\ resource \in Resources
    /\ deadline \in Deadlines
    /\ execution_schema \in {"batch", "remote"}
    /\ IF execution_schema = "batch"
          THEN requested_resources \in 0 .. MaxCores /\ existing_jobs = NoJobs
          ELSE requested_resources = 0 /\ existing_jobs \in JobTables
    /\ planned = NoPlan
    /\ Constructed
    /\ workflows_state = <<>>
    /\ run_pc = "unstarted"
    /\ driver_pc = "planner"

SpecSearch == InitSearch /\ [][NextPlan]_vars

\* C12: batch mode.  plan() returns requested_resources as the core count and no
\* QoS, and every entry of the plan holds cores of range(0, requested_resources)
\* only, whatever requested_resources is, the default 0 of Campaign included.
BatchContract ==
    (execution_schema = "batch" /\ planned # NoPlan /\ Returned) =>
        /\ planned.ncores = requested_resources
        /\ planned.qos = None
        /\ \A k \in DOMAIN planned.plan :
              Cores(planned.plan[k]) \subseteq 0 .. requested_resources - 1

\* ----------------------------------------- calls of the Resource's methods
MaxJobs == 3
JobWalltimes == {3, 12, 13}
JobCores == {1, 2, 3}

CalledJobs == SumSeq([i \in 1 .. Len(resource.qos) |-> Len(existing_jobs[resource.qos[i].name])])

\* mutant: the query books the job it was asked about
CallFitsInQosBooking ==
    /\ driver_pc = "resource"
    /\ CalledJobs < MaxJobs
    /\ \E walltime \in JobWalltimes, cores \in JobCores :
          /\ registered' = [op |-> "fits_in_qos", walltime |-> walltime, cores |-> cores,
                            before |-> existing_jobs,
                            result |-> FitsInQos(resource, existing_jobs, walltime, cores)]
          /\ existing_jobs' = Registered(resource, existing_jobs, CalledJobs + 1,
                                         walltime, cores)
    /\ UNCHANGED <<campaign, dryrun, workflows, resource, deadline,
                   execution_schema, requested_resources, reg_threads, now>>
    /\ UNCHANGED <<planVars, bkVars, cbVars, runVars, workVars, monitorVars,
                   enactorVars, enactVars, eterm_pc, emonitorVars, driver_pc>>

\* resource.fits_in_qos(walltime, cores)
CallFitsInQos ==
    /\ driver_pc = "resource"
    /\ \E walltime \in JobWalltimes, cores \in JobCores :
          registered' = [op |-> "fits_in_qos", walltime |-> walltime, cores |-> cores,
                         before |-> existing_jobs,
                         result |-> FitsInQos(resource, existing_jobs, walltime, cores)]
    /\ UNCHANGED <<campaign, dryrun, workflows, resource, existing_jobs, deadline,
                   execution_schema, requested_resources, reg_threads, now>>
    /\ UNCHANGED <<planVars, bkVars, cbVars, runVars, workVars, monitorVars,
                   enactorVars, enactVars, eterm_pc, emonitorVars, driver_pc>>

\* resource.register_job(job_id, walltime, cores); job ids are handed out in order
RegisterJob ==
    /\ driver_pc = "resource"
    /\ CalledJobs < MaxJobs
    /\ \E walltime \in JobWalltimes, cores \in JobCores :
          /\ existing_jobs' = Registered(resource, existing_jobs, CalledJobs + 1,
                                         walltime, cores)
          /\ registered' = [op |-> "register_job", job_id |-> CalledJobs + 1,
                            walltime |-> walltime, cores |-> cores,
                            before |-> existing_jobs,
                            result |-> FitsInQos(resource, existing_jobs, walltime,
                                                 cores) # None]
    /\ UNCHANGED <<campaign, dryrun, workflows, resource, deadline,
                   execution_schema, requested_resources, reg_threads, now>>
    /\ UNCHANGED <<planVars, bkVars, cbVars, runVars, workVars, monitorVars,
                   enactorVars, enactVars, eterm_pc, emonitorVars, driver_pc>>

\* a Resource as constructed: no outstanding job
InitQos ==
    /\ resource \in Resources
    /\ existing_jobs = NoJobs
    /\ campaign = <<>>
    /\ dryrun = FALSE
    /\ workflows = <<>>
    /\ requirements = <<>>
    /\ deadline = 6
    /\ execution_schema = "remote"
    /\ requested_resources = 0
    /\ planned = NoPlan
    /\ Constructed
    /\ workflows_state = <<>>
    /\ run_pc = "unstarted"
    /\ driver_pc = "resource"

NextQos == CallFitsInQos \/ RegisterJob

SpecQos == InitQos /\ [][NextQos]_vars

\* =============================================== properties of the Resource
\* the cores of the jobs outstanding in a QoS
Outstanding(jobs, qos_name) ==
    SumSeq([k \in DOMAIN jobs[qos_name] |-> jobs[qos_name][k].cores])

\* a policy admits a job: walltime, free cores and free job slots, a limit that is
\* absent admitting everything
Admits(policy, jobs, walltime, cores) ==
    /\ policy.max_walltime = None \/ policy.max_walltime >= walltime
    /\ policy.max_cores = None \/ policy.max_cores - Outstanding(jobs, policy.name) >= cores
    /\ policy.max_jobs = None \/ Len(jobs[policy.name]) < policy.max_jobs

Admitting(jobs, walltime, cores) ==
    {i \in 1 .. Len(resource.qos) : Admits(resource.qos[i], jobs, walltime, cores)}

RegisterJobRefused ==
    /\ registered.op = "register_job"
    /\ registered.result = FALSE
    /\ registered.before # NoJobs

EmptyCampaignDone ==
    (campaign = <<>> /\ run_pc = "start")
        ~> (planned # NoPlan /\ planned.error = "" /\ planned.plan = <<>>
            /\ campaign_state = DONE /\ run_pc = "returned")

\* the plan() call of the work thread returned a plan that ends after the deadline,
\* and the work thread has gone through its first deadline check
PlanTooLong ==
    /\ driver_pc = "bookkeeper"
    /\ planned # NoPlan
    /\ planned.error = ""
    /\ FLt(deadline, MaxEnd(planned.plan))
    /\ work_pc \notin {"checkpoints", "verify"}

\* C17: initial deadline check.  When the plan ends after the deadline the work
\* thread sets the campaign FAILED and returns; setup() and enact() of the enactor
\* are not called.
InitialDeadlineCheck ==
    PlanTooLong =>
        /\ campaign_state = FAILED
        /\ work_pc = "returned"
        /\ enactor_resource = "None"
        /\ enacted = <<>>
        /\ enact_pc = "idle"
        /\ to_monitor = <<>>
        /\ rp_tasks = <<>>

\* the check failed, and run() has gone through terminate() and returned
InitialDeadlineCheckWitness ==
    /\ PlanTooLong
    /\ Len(planned.plan) = 2
    /\ campaign_state = FAILED
    /\ run_pc = "returned"

\* ------------------------------------------------- cancellation of a running campaign
\* an exception raised in the try block of run() while the threads run (the
\* KeyboardInterrupt of the user included) leaves through finally: self.terminate()
RunInterrupted ==
    /\ run_pc \in {"wait_checkpoints", "while", "for", "if_done"}
    /\ run_pc' = "terminate"
    /\ UNCHANGED <<inputVars, planVars, bkVars, cbVars, run_local, workVars, monitorVars,
                   enactorVars, enactVars, eterm_pc, emonitorVars, driver_pc>>

NextCancel == Next \/ RunInterrupted

\* the threads are scheduled as in FairSpec; nothing forces the interruption
SpecCancel ==
    /\ InitFair /\ [][NextCancel]_vars
    /\ WF_vars(RunNext) /\ WF_vars(WorkSteps) /\ []<>(work_pc # "plan")
    /\ WF_vars(MonitorNext) /\ WF_vars(EMonitorNext) /\ WF_vars(TaskFinishes)

\* C18: cancellation.  Whenever terminate() is called, workflows executing or not,
\* the work loop and the monitor loop see the terminate event and leave, and
\* terminate() returns with both threads joined.
CancellationReturns ==
    (run_pc = "terminate")
        ~> (/\ run_pc = "returned"
            /\ work_pc \in {"returned", "crashed"}
            /\ monitor_pc \in {"exited", "crashed"})

\* ============================================ properties of the enactors, continued
Count(s, x) == Cardinality({k \in DOMAIN s : s[k] = x})

\* a workflow is in the monitor list at most once and each callback was told at
\* most once that it is EXECUTING
EnactedOnce ==
    \A w \in Range(workflows) :
        /\ Count(to_monitor, w) <= 1
        /\ \A cb \in Range(Callbacks) : Count(delivered[w][cb], EXECUTING) <= 1

\* the status of a tracked workflow changes only from EXECUTING to DONE
StatusKept ==
    \A w \in DOMAIN execution_status :
        /\ w \in DOMAIN execution_status'
        /\ execution_status'[w] \in {execution_status[w], DONE}
        /\ execution_status[w] = DONE => execution_status'[w] = DONE

\* C19: enact() skips the workflows it tracks already.  A workflow handed to
\* enact() again is not added to the monitor list a second time, its status is
\* not set back, and no callback is called for it.
EnactSkipsTracked == [] EnactedOnce /\ [][StatusKept]_vars

\* a second enact() call has gone through a workflow of the first call that the
\* monitor has completed already
EnactSkipsTrackedWitness ==
    /\ driver_pc = "ready"
    /\ Len(enacted) = 2
    /\ enact_pc = "idle"
    /\ \E w \in Range(enacted[1]) \cap Range(enacted[2]) :
          /\ execution_status[w] = DONE
          /\ Count(to_monitor, w) = 0

\* the dry-run monitor has completed workflow w: DONE (the end_time is written in
\* the same locked block) and out of the monitor list
Completed(w) ==
    /\ w \in DOMAIN execution_status
    /\ execution_status[w] = DONE
    /\ Count(to_monitor, w) = 0

\* C20: dry-run monitor completion.  Every workflow enacted on the DryrunEnactor,
\* in one enact() call or several, eventually is DONE and out of the monitor list.
MonitorCompletes ==
    \A w \in 1 .. MaxWorkflows : (w \in DOMAIN execution_status) ~> Completed(w)

\* C20 amended: ... eventually is DONE and out of the monitor list, unless
\* terminate() stops the monitor thread before it has gone through the workflow.
MonitorCompletesUnlessTerminated ==
    \A w \in 1 .. MaxWorkflows :
        (w \in DOMAIN execution_status) ~> (Completed(w) \/ terminate_monitor)

\* two enact() calls with different workflows, all of them completed, and the
\* enactor not terminated
MonitorCompletesWitness ==
    /\ Len(enacted) = 2
    /\ Range(enacted[1]) \cap Range(enacted[2]) = {}
    /\ \A w \in Range(enacted[1]) \cup Range(enacted[2]) : Completed(w)
    /\ ~ terminate_monitor
    /\ eterm_pc = "idle"

\* =================================== properties of the Resource, continued
\* after a fits_in_qos call the table is the one the call found
TableKept == registered.op = "fits_in_qos" => existing_jobs = registered.before

\* two fits_in_qos calls in a row with the same arguments on the same table return
\* the same policy
SameAnswer ==
    (/\ registered.op = "fits_in_qos" /\ registered'.op = "fits_in_qos"
     /\ registered'.walltime = registered.walltime
     /\ registered'.cores = registered.cores
     /\ registered'.before = registered.before)
        => registered'.result = registered.result

MaxThreadCalls == 2

\* qos_policy = self.fits_in_qos(walltime, cores); if qos_policy: ... return False
RegFits(t) ==
    /\ driver_pc = "threads"
    /\ reg_threads[t].pc = "idle"
    /\ reg_threads[t].calls < MaxThreadCalls
    /\ \E walltime \in JobWalltimes, cores \in JobCores :
          LET qos_policy == FitsInQos(resource, existing_jobs, walltime, cores)
          IN  reg_threads' =
                  [reg_threads EXCEPT ![t] =
                      [pc |-> IF qos_policy = None THEN "idle" ELSE "get",
                       calls |-> @.calls + 1,
                       job_id |-> 2 * @.calls + t,
                       walltime |-> walltime, cores |-> cores,
                       qos_policy |-> qos_policy, fresh |-> FALSE]]
    /\ UNCHANGED <<campaign, dryrun, workflows, resource, existing_jobs, deadline,
                   execution_schema, requested_resources, registered, now>>
    /\ UNCHANGED <<planVars, bkVars, cbVars, runVars, workVars, monitorVars,
                   enactorVars, enactVars, eterm_pc, emonitorVars, driver_pc>>

\* existing_jobs = self._existing_jobs.get(qos_name, []): the list the table holds,
\* or a new list of the thread's own when the table has no entry for the QoS
RegGet(t) ==
    /\ driver_pc = "threads"
    /\ reg_threads[t].pc = "get"
    /\ reg_threads' =
           [reg_threads EXCEPT
               ![t].pc = "append",
               ![t].fresh = (existing_jobs[resource.qos[reg_threads[t].qos_policy].name] = <<>>)]
    /\ UNCHANGED <<campaign, dryrun, workflows, resource, existing_jobs, deadline,
                   execution_schema, requested_resources, registered, now>>
    /\ UNCHANGED <<planVars, bkVars, cbVars, runVars, workVars, monitorVars,
                   enactorVars, enactVars, eterm_pc, emonitorVars, driver_pc>>

\* existing_jobs.append(...); self._existing_jobs[qos_name] = existing_jobs; return True.
\* The append reaches the table when the list is the table's; the thread's own list
\* replaces the entry of the table.
RegAppend(t) ==
    /\ driver_pc = "threads"
    /\ reg_threads[t].pc = "append"
    /\ LET call == reg_threads[t]
           job == [job_id |-> call.job_id, walltime |-> call.walltime, cores |-> call.cores]
           qos_name == resource.qos[call.qos_policy].name
       IN  existing_jobs' =
               [existing_jobs EXCEPT ![qos_name] = IF call.fresh THEN <<job>> ELSE Append(@, job)]
    /\ reg_threads' = [reg_threads EXCEPT ![t].pc = "idle"]
    /\ UNCHANGED <<campaign, dryrun, workflows, resource, deadline,
                   execution_schema, requested_resources, registered, now>>
    /\ UNCHANGED <<planVars, bkVars, cbVars, runVars, workVars, monitorVars,
                   enactorVars, enactVars, eterm_pc, emonitorVars, driver_pc>>

InitQosThreads ==
    /\ resource \in Resources
    /\ existing_jobs = NoJobs
    /\ campaign = <<>>
    /\ dryrun = FALSE
    /\ workflows = <<>>
    /\ requirements = <<>>
    /\ deadline = 6
    /\ execution_schema = "remote"
    /\ requested_resources = 0
    /\ planned = NoPlan
    /\ Constructed
    /\ workflows_state = <<>>
    /\ run_pc = "unstarted"
    /\ driver_pc = "threads"

NextQosThreads == \E t \in RegThreads : RegFits(t) \/ RegGet(t) \/ RegAppend(t)

SpecQosThreads == InitQosThreads /\ [][NextQosThreads]_vars

\* C22: register_job is atomic.  With two threads calling register_job on one
\* Resource, in no QoS do the outstanding cores exceed max_cores or the outstanding
\* jobs exceed max_jobs.
QosLimitsKept ==
    \A i \in 1 .. Len(resource.qos) :
        LET policy == resource.qos[i]
        IN  /\ policy.max_cores # None =>
                  Outstanding(existing_jobs, policy.name) <= policy.max_cores
            /\ policy.max_jobs # None =>
                  Len(existing_jobs[policy.name]) <= policy.max_jobs

\* =========================================== properties of the planner, continued
\* no window passed the memory test when the entry was placed: the search left
\* min_end_time at inf
NoWindow(entry) == entry.start_time = Inf

\* C23: infeasible memory.  When no candidate window of a workflow has the memory
\* it requires free at the candidate start, plan() fails, and no entry is emitted
\* for the workflow.
InfeasibleMemoryFails ==
    (planned # NoPlan /\ Returned) =>
        \A k \in DOMAIN planned.plan : ~ NoWindow(planned.plan[k])

\* no policy of the resource can hold a job of that many cores for that long: the
\* job is longer than max_walltime or wider than the cores the policy has left
NoQosHolds(walltime, cores) ==
    \A i \in 1 .. Len(resource.qos) :
        LET policy == resource.qos[i]
        IN  \/ policy.max_walltime # None /\ policy.max_walltime < walltime
            \/ /\ policy.max_cores # None
               /\ policy.max_cores - Outstanding(existing_jobs, policy.name) < cores

\* no core count of the range the remote planner searches ends by the deadline
NoneMeetsDeadline ==
    /\ SelectedQos # None
    /\ resource.qos[SelectedQos].max_cores # None
    /\ \A n \in SearchLow .. SearchHigh(SelectedQos) : ~ MeetsDeadline(n)

NoQosWitness ==
    /\ execution_schema = "remote"
    /\ NoQosHolds(deadline, GetMaxNcores(requirements))
    /\ planned = Raised("ValueError: no QoS")


\* entry u ran on a core of entry v and was over when v began
Precedes(u, v) ==
    /\ Cores(u) \cap Cores(v) # {}
    /\ FLe(u.end_time, v.start_time)

\* every edge of the graph joins two entries of which the first precedes the second
EdgesSound ==
    Returned =>
        \A e \in planned.graph.edges :
            \E i, j \in DOMAIN planned.plan :
                /\ planned.plan[i].workflow = e[1]
                /\ planned.plan[j].workflow = e[2]
                /\ Precedes(planned.plan[i], planned.plan[j])

\* every entry that precedes another has an edge to it
EdgesComplete ==
    Returned =>
        \A i, j \in DOMAIN planned.plan :
            (i # j /\ Precedes(planned.plan[i], planned.plan[j]))
                => <<planned.plan[i].workflow, planned.plan[j].workflow>>
                       \in planned.graph.edges

\* C25: plan-graph edges.  In the graph built from a plan, an edge u -> v exists if
\* and only if entry u and entry v share at least one core and u.end <= v.start.
PlanGraphEdges == EdgesSound /\ EdgesComplete


\* the nodes reachable from n along the edges of g, in at most k steps
RECURSIVE ReachableFrom(_, _, _)
ReachableFrom(edges, from, k) ==
    IF k = 0 THEN from
    ELSE ReachableFrom(edges, from \cup {e[2] : e \in {d \in edges : d[1] \in from}}, k - 1)

Acyclic(g) ==
    \A e \in g.edges : e[1] \notin ReachableFrom(g.edges, {e[2]}, Len(g.nodes))

\* the entry of a plan for a workflow
EntryOf(plan, wf) == plan[CHOOSE k \in DOMAIN plan : plan[k].workflow = wf]

\* C26: the plan graph built from a plan of the inner placement is acyclic: every
\* edge goes from an entry to one that starts no earlier than the first one ends.
PlanGraphAcyclic ==
    Returned =>
        /\ Acyclic(planned.graph)
        /\ \A e \in planned.graph.edges :
               FLe(EntryOf(planned.plan, e[1]).end_time,
                   EntryOf(planned.plan, e[2]).start_time)

\* the graph alone: no entry reaches itself along the edges
GraphHasNoCycle == Returned => Acyclic(planned.graph)


\* C27: plan-entry shape.  Every plan entry has end_time = start_time + the
\* workflow's req_walltime, and its cores are a contiguous range [c, c + n) of
\* exactly n = req_cpus cores inside the allocation, for every core count given to
\* the inner placement.
PlanEntryShape ==
    Returned =>
        \A k \in DOMAIN planned.plan :
            LET entry == planned.plan[k]
                req   == requirements[entry.workflow]
            IN  /\ entry.end_time = FAdd(entry.start_time, req.req_walltime)
                /\ entry.c1 - entry.c0 = req.req_cpus
                /\ 0 <= entry.c0
                /\ entry.c1 <= EffectiveCores(resource, planned.ncores)


\* the entries were appended longest workflow first, equal walltimes by index
PlacedInOrder ==
    Returned =>
        \A k, l \in DOMAIN planned.placed :
            k < l =>
                LET a == requirements[planned.placed[k].workflow]
                    b == requirements[planned.placed[l].workflow]
                IN  \/ a.req_walltime > b.req_walltime
                    \/ a.req_walltime = b.req_walltime /\ a.id < b.id

Identical(a, b) ==
    /\ a.req_cpus = b.req_cpus
    /\ a.req_memory = b.req_memory
    /\ a.req_walltime = b.req_walltime

\* of two workflows of identical requirements the one of the lower id has the
\* core window of the lower (or the same) index
LowerIdLowerWindow ==
    Returned =>
        \A i, j \in DOMAIN requirements :
            (i < j /\ Identical(requirements[i], requirements[j]))
                => EntryOf(planned.plan, i).c0 <= EntryOf(planned.plan, j).c0

StartTogether(i, j) ==
    /\ i < j
    /\ Identical(requirements[i], requirements[j])
    /\ ~ NoWindow(EntryOf(planned.plan, i))
    /\ EntryOf(planned.plan, i).start_time = EntryOf(planned.plan, j).start_time

RECURSIVE FreeAfter(_, _)
FreeAfter(prefix, ncores) ==
    IF prefix = <<>> THEN InitializeResourceFreeTimes(ncores)
    ELSE LET last == prefix[Len(prefix)]
             before == FreeAfter(SubSeq(prefix, 1, Len(prefix) - 1), ncores)
         IN  [c \in 0 .. ncores - 1 |-> IF c \in Cores(last) THEN last.end_time
                                         ELSE before[c]]

\* the windows of n cores at stride n inside the allocation
StrideWindows(n, ncores) == {c \in 0 .. ncores - 1 : c % n = 0 /\ c + n <= ncores}

\* the windows whose free memory at their candidate start holds the workflow
FeasibleWindows(prefix, free, req, ncores) ==
    {c \in StrideWindows(req.req_cpus, ncores) :
        MemoryFits(resource, prefix, SliceMax(free, c, c + req.req_cpus), ncores,
                   req.req_memory)}

\* entry k of the placement order sits on the best feasible window, if there is one
BestWindow(k, ncores) ==
    LET entry  == planned.placed[k]
        req    == requirements[entry.workflow]
        prefix == SubSeq(planned.placed, 1, k - 1)
        free   == FreeAfter(prefix, ncores)
        EndOn(c) == FAdd(SliceMax(free, c, c + req.req_cpus), req.req_walltime)
        feasible == FeasibleWindows(prefix, free, req, ncores)
    IN  feasible # {} =>
            /\ entry.c0 \in feasible
            /\ \A c \in feasible :
                   /\ FLe(EndOn(entry.c0), EndOn(c))
                   /\ EndOn(c) = EndOn(entry.c0) => entry.c0 <= c

\* entry k starts at the candidate start of the window it sits on
StartsAtWindow(k, ncores) ==
    LET entry  == planned.placed[k]
        req    == requirements[entry.workflow]
        prefix == SubSeq(planned.placed, 1, k - 1)
        free   == FreeAfter(prefix, ncores)
    IN  FeasibleWindows(prefix, free, req, ncores) # {} =>
            entry.start_time = SliceMax(free, entry.c0, entry.c0 + req.req_cpus)

WindowIsBest ==
    Returned =>
        \A k \in DOMAIN planned.placed :
            BestWindow(k, EffectiveCores(resource, planned.ncores))

\* C29: window selection.  For each workflow the chosen window is, among the
\* stride-n windows with c + n <= ncores whose free memory at the candidate start
\* s = max(free[c..c+n)) holds req_memory, one that minimises s + w, the lowest-indexed
\* of those of equal candidate end; the entry's start is that window's s.
WindowSelection ==
    Returned =>
        \A k \in DOMAIN planned.placed :
            /\ BestWindow(k, EffectiveCores(resource, planned.ncores))
            /\ StartsAtWindow(k, EffectiveCores(resource, planned.ncores))


\* the nodes an allocation of n cores touches
WholeNodes(n, cores_per_node) == (n + cores_per_node - 1) \div cores_per_node

\* the workflow placed first, on an allocation that is wide enough for it, and
\* nothing else in the plan yet: the free memory is the total memory
PlacedFirst == requirements[planned.placed[1].workflow]
Allocation == EffectiveCores(resource, planned.ncores)
FirstPlacement ==
    /\ planned # NoPlan
    /\ Returned
    /\ PlacedFirst.req_cpus <= Allocation

\* C30 as stated: memory scaling.  The total memory of the free-memory check is
\* memory_per_node times the allocated cores / cores_per_node rounded up to whole
\* nodes, so that an allocation smaller than one node has a full node's memory.
MemoryOfWholeNodes ==
    FirstPlacement =>
        (~ NoWindow(planned.placed[1])
            <=> PlacedFirst.req_memory
                    <= resource.memory_per_node
                           * WholeNodes(Allocation, resource.cores_per_node))

\* C30 amended: the total memory of the free-memory check is memory_per_node times
\* the allocated cores / cores_per_node, not rounded, so that an allocation smaller
\* than one node has that fraction of a node's memory.
MemoryOfCoreShare ==
    FirstPlacement =>
        (~ NoWindow(planned.placed[1])
            <=> PlacedFirst.req_memory * resource.cores_per_node
                    <= resource.memory_per_node * Allocation)

\* on less than a node, a workflow that one node's memory would hold gets no window
MemoryOfCoreShareWitness ==
    /\ FirstPlacement
    /\ Allocation < resource.cores_per_node
    /\ PlacedFirst.req_memory <= resource.memory_per_node
    /\ NoWindow(planned.placed[1])


\* =========================================== errors raised by RADICAL-Pilot
\* self._rp_tmgr.submit_tasks(exec_workflows) raises: the call stands after the
\* try block of the loop, so the exception leaves enact(); work() catches nothing
\* around self._enactor.enact(), so it ends the work thread
EnactSubmitRaises ==
    /\ enact_pc = "submit"
    /\ work_pc = "enacting"
    /\ enact_pc' = "raised"
    /\ work_pc' = "crashed"
    /\ UNCHANGED <<inputVars, planVars, bkVars, cbVars, runVars, work_local, monitorVars,
                   enactorVars, enact_local, enacted, eterm_pc, emonitorVars, driver_pc>>

\* self._rp_tmgr.list_tasks() or self._rp_tmgr.get_tasks(uids=...) raises inside
\* RPEnactor._monitor: the loop has no try block, the exception ends the thread
EMonitorPollRaises ==
    /\ ~ dryrun
    /\ \/ emonitor_pc = "if" /\ to_monitor # <<>>
       \/ /\ emonitor_pc = "for"
          /\ emonitor_local.i <= Len(emonitor_local.monitoring_list)
          /\ InExecuting(emonitor_local.monitoring_list[emonitor_local.i],
                         emonitor_local.workflows_executing)
    /\ emonitor_pc' = "crashed"
    /\ UNCHANGED <<inputVars, planVars, bkVars, cbVars, runVars, workVars, monitorVars,
                   enactorVars, enactVars, eterm_pc, emonitor_local, driver_pc>>

NextFaults == Next \/ EnactSubmitRaises \/ EMonitorPollRaises

SpecFaults == Init /\ [][NextFaults]_vars

\* C31: SubmitError recovery.  If the enactor raises during a submit_tasks call, the
\* workflows of that call stay NEW and are not left tracked as EXECUTING, and the
\* work thread keeps running (so that they are submitted again on the next tick).
SubmitErrorRecovery ==
    enact_pc = "raised" =>
        /\ work_pc # "crashed"
        /\ \A w \in Range(Last(enacted)) :
               /\ workflows_state[w] = NEW_STATE
               /\ ~ Tracked(execution_status, w)

\* C32: MonitorTransient recovery.  A batch-system poll (list_tasks / get_tasks) that
\* raises inside the enactor's monitor loop does not end the monitor: it keeps
\* polling, so that workflows that finish afterwards are still reported DONE.
MonitorTransientRecovery == emonitor_pc # "crashed"


\* =========================================== the run against the wall clock
MaxClock == 5

\* time passes while the work thread sleeps at the end of an iteration of its loop
Tick ==
    /\ work_pc = "while"
    /\ campaign_state = EXECUTING
    /\ now < MaxClock
    /\ now' = now + 1
    /\ UNCHANGED <<campaign, dryrun, workflows, resource, existing_jobs, deadline,
                   execution_schema, requested_resources, registered, reg_threads>>
    /\ UNCHANGED <<planVars, bkVars, cbVars, runVars, workVars, monitorVars,
                   enactorVars, enactVars, eterm_pc, emonitorVars, driver_pc>>

NextClock == Next \/ Tick

SpecClock == InitFair /\ [][NextClock]_vars

\* the deadline is over and a workflow of the campaign is not DONE: whatever the
\* plan said, the last end time now lies after the deadline
Late == now > deadline /\ \E w \in DOMAIN workflows_state : workflows_state[w] # DONE

\* C33: mid-run deadline enforcement.  If during execution the campaign can no longer
\* finish by the deadline, the deadline re-check of the work loop fails on its next
\* tick and sets the campaign FAILED: no tick that starts late goes on to submit.
MidRunDeadline == work_pc = "nodes" => ~ Late


\* =========================================== the pilot's walltime
\* deadlines at, just above and well above the last end time of the plans
BudgetDeadlines == {2, 3, 6}

InitBudget == Built(Campaigns, BudgetDeadlines)

SpecBudget == InitBudget /\ [][Next]_vars

\* the work thread has reached the call of enactor.setup: self._objective is the
\* walltime the call passes
SetupCalled == work_pc \in {"setup", "executing", "while", "nodes", "enacting"}

\* k = ceil(min(last * 1.25, limit)) for integers k and limit
IsCeilOfMin(k, last, limit) ==
    LET m4 == Min(5 * last, 4 * limit)      \* four times the minimum
    IN  4 * (k - 1) < m4 /\ m4 <= 4 * k

\* C34: pilot budget.  The walltime passed to enactor.setup is
\* ceil(min(plan_last_end * 1.25, deadline)); it is never smaller than the plan's
\* last end time and never larger than the deadline.
PilotBudget ==
    SetupCalled =>
        /\ IsCeilOfMin(objective, MaxEnd(planned.plan), deadline)
        /\ FLe(MaxEnd(planned.plan), objective)
        /\ objective <= deadline

\* setup was called with a budget that the deadline cut, and with one it did not
PilotBudgetWitness ==
    /\ SetupCalled
    /\ enactor_resource # "None"
    /\ 5 * MaxEnd(planned.plan) > 4 * deadline
    /\ objective = deadline
    /\ MaxEnd(planned.plan) < objective


\* =========================================== the campaign's lifecycle
\* the changes of the campaign state the lifecycle allows
LifecycleStep(from, to) ==
    \/ from = NEW_STATE /\ to = PLANNING
    \/ from = PLANNING /\ to \in {FAILED, EXECUTING}
    \/ from = EXECUTING /\ to \in CFINAL

CampaignMoves ==
    campaign_state' # campaign_state =>
        /\ LifecycleStep(campaign_state, campaign_state')
        /\ campaign_state' = EXECUTING => enactor_resource # "None"

EnactedWhileExecuting == enacted # <<>> => campaign_state \in {EXECUTING} \cup CFINAL

\* C35: campaign lifecycle order.  The campaign state goes from NEW to PLANNING, then
\* to FAILED or EXECUTING, then to a final state; EXECUTING is set only after
\* enactor.setup has returned, no workflow is enacted before the campaign is
\* EXECUTING, and a final campaign state never changes.
LifecycleOrder == [] EnactedWhileExecuting /\ [][CampaignMoves]_vars

\* a campaign that went through EXECUTING, had its workflows enacted and is DONE
LifecycleOrderWitness ==
    /\ campaign_state = DONE
    /\ enacted # <<>>
    /\ \A w \in DOMAIN workflows_state : workflows_state[w] = DONE


\* =========================================== the bookkeeper's monitor thread
\* the tracked lists go together: the record at the place of a workflow is the
\* core range planned for that workflow
OwnCoreRecords ==
    /\ Len(unavail_resources) = Len(workflows_to_monitor)
    /\ \A k \in DOMAIN workflows_to_monitor :
           LET entry == EntryOf(planned.plan, workflows_to_monitor[k])
           IN  unavail_resources[k].cores = <<entry.c0, entry.c1>>

\* the recorder returned for every workflow it was invoked on
RecorderReturns == monitor_pc # "crashed"

\* C36: completion recording.  For each workflow on the tracked list whose state has
\* become final the bookkeeper's monitor thread invokes the recorder and then
\* removes the workflow together with its own core record from the tracked lists,
\* under any interleaving with the work thread appending new workflows.
CompletionRecording == RecorderReturns /\ OwnCoreRecords


\* =========================================== campaigns whose ids are not 1..N
\* two workflows with ids 2 and 3; three with ids 2, 3 and 4, the last of them
\* planned after the second on its core; and two with ids 1 and 2
IdCampaigns ==
    { << Wf(2, 1, 1, 3, {}), Wf(3, 1, 1, 2, {}) >>,
      << Wf(2, 1, 1, 3, {}), Wf(3, 1, 1, 2, {}), Wf(4, 1, 1, 2, {}) >>,
      << Wf(1, 1, 1, 2, {}), Wf(2, 1, 1, 2, {}) >> }

IdDeadlines == {9}

InitIds == Built(IdCampaigns, IdDeadlines)

SpecIds == InitIds /\ [][Next]_vars

\* C38: plan lookup by id.  For a campaign whose workflow ids are unique integers,
\* not necessarily 1..N, the plan entry the work loop uses for the plan-graph node
\* wf_id, self._plan[wf_id - 1], is the entry whose workflow.id is wf_id.
PlanLookupById ==
    work_pc = "nodes" =>
        \A wf_id \in Range(planned.graph.nodes) :
            /\ InPlan(planned.plan, wf_id)
            /\ PlanAt(planned.plan, wf_id).workflow = wf_id


\* ------------------------------------------------- cores of running workflows
\* a workflow handed to the enactor whose state is not yet DONE
Running(w) == w \in Submitted /\ workflows_state[w] # DONE

\* C37: runtime core exclusivity.  At every moment of a campaign run, two workflows
\* that have both been submitted and are not yet DONE have disjoint planned core
\* ranges.
RuntimeCoreExclusivity ==
    \A v, w \in DOMAIN workflows_state :
        (v # w /\ Running(v) /\ Running(w)) =>
            Cores(EntryOf(planned.plan, v)) \cap Cores(EntryOf(planned.plan, w)) = {}

\* a workflow runs on a core whose earlier user has finished
RuntimeCoreExclusivityWitness ==
    \E v, w \in DOMAIN workflows_state :
        /\ v # w
        /\ v \in Submitted /\ workflows_state[v] = DONE
        /\ Running(w)
        /\ Cores(EntryOf(planned.plan, v)) \cap Cores(EntryOf(planned.plan, w)) # {}


\* ------------------------------------------------ the states the enactors deliver
\* every state a callback was called with is EXECUTING or DONE
DeliveredStates ==
    \A w \in DOMAIN delivered : \A cb \in Range(Callbacks) :
        Range(delivered[w][cb]) \subseteq {EXECUTING, DONE}

\* the monitor of the enactor has dealt with the workflow: it is tracked and no
\* longer in the monitor list
Reported(w) == Tracked(execution_status, w) /\ w \notin Range(to_monitor)

\* C39: the enactors only ever deliver the states EXECUTING and DONE.  A task that
\* reaches any final state of the batch system, failed ones included, is reported
\* DONE; no workflow's state in the bookkeeper is ever FAILED or CANCELED; and the
\* campaign is FAILED only when the deadline check has failed.
OnlyExecutingAndDone ==
    /\ DeliveredStates
    /\ \A w \in DOMAIN workflows_state :
          /\ workflows_state[w] \notin {FAILED, CANCELED}
          /\ Reported(w) =>
                /\ execution_status[w] = DONE
                /\ \A cb \in Range(Callbacks) : DONE \in Range(delivered[w][cb])
    /\ campaign_state = FAILED => DeadlineMissed

\* a task that failed in the batch system has been reported, and is stored, as DONE
OnlyExecutingAndDoneWitness ==
    \E w \in DOMAIN workflows_state :
        /\ ~ dryrun
        /\ w \in DOMAIN rp_tasks /\ rp_tasks[w] = "FAILED"
        /\ Reported(w)
        /\ workflows_state[w] = DONE


\* ------------------------------------------------------ submissions over a run
\* the calls of enact() by the work loop that were handed the workflow
EnactCallsWith(w) == {k \in DOMAIN enacted : w \in Range(enacted[k])}

\* C40: at-most-once submission.  Over a whole run the work loop passes each
\* workflow to enactor.enact at most once, and never twice in one call.
AtMostOnceSubmission ==
    \A w \in Range(workflows) :
        /\ Cardinality(EnactCallsWith(w)) <= 1
        /\ \A k \in DOMAIN enacted : Count(enacted[k], w) <= 1

\* the work loop has called enact() in two passes and every workflow is DONE
AtMostOnceSubmissionWitness ==
    /\ Len(enacted) = 2
    /\ \A w \in Range(workflows) : w \in Submitted /\ workflows_state[w] = DONE

====
